---- MODULE Spec2Model ----
(***************************************************************************)
(* The plugin store of codex-rs: install (install_from_root), enable,      *)
(* disable, policy set, and the registry file they share.                  *)
(*                                                                         *)
(* The file system is a map from normalised paths to nodes.  A path is a   *)
(* sequence of components; "." and ".." are resolved the way the kernel    *)
(* resolves them, so store.plugin_dir(name) and store.registry_path() are  *)
(* computed by joining, exactly as the code does, and may coincide.        *)
(***************************************************************************)
EXTENDS Integers, Sequences, FiniteSets, TLC

\* ------------------------------------------------------------------ bounds

\* Files of a staged plugin tree; file 1 is the manifest.
NumFiles == 2
\* Invocations (install, enable, disable, policy set) started in a behaviour.
MaxOps == 3
\* Entries of a registry value handed to save.
MaxEntries == 2
\* Invocations run on a registry file that was found on disk.
FoundOps == 2

\* Entries of a zip archive handed to the extractor.
MaxZipEntries == 2

\* Entries of the staging directory an archive was extracted into.
MaxChildren == 2

\* Installs from a source that has to be fetched, started in a behaviour.
FetchOps == 2

\* Plugins the toggle view lists, and key events it receives.
MaxItems == 2
MaxKeys == 5

\* ------------------------------------------------------- program constants

REGISTRY_FILENAME == "installed_plugins.json"
REGISTRY_VERSION == 1
\* The file type bits of a unix mode, 0o170000, and those of a symlink,
\* 0o120000.
S_IFMT == 61440
S_IFLNK == 40960

Scopes == {"User", "Project"}
Components == <<"Commands", "Skills", "Rules", "Contexts", "Hooks", "Agents", "McpConfigs">>

\* Option<T>: <<>> is None, <<v>> is Some(v).
None == <<>>
Some(v) == <<v>>

Range(f) == {f[i] : i \in DOMAIN f}

\* --------------------------------------------------------------- strings

\* The characters of the strings the model uses as plugin names.
Chars(s) ==
    CASE s = "demo" -> <<"d", "e", "m", "o">>
      [] s = "util" -> <<"u", "t", "i", "l">>
      [] s = "." -> <<".">>
      [] s = ".." -> <<".", ".">>
      [] s = "a/b" -> <<"a", "/", "b">>
      [] s = " " -> <<" ">>
      [] s = REGISTRY_FILENAME ->
            <<"i", "n", "s", "t", "a", "l", "l", "e", "d", "_", "p", "l", "u",
              "g", "i", "n", "s", ".", "j", "s", "o", "n">>
      [] OTHER -> <<s>>

IsWhitespace(c) == c \in {" ", "\t", "\n", "\r"}

RECURSIVE TrimStart(_)
TrimStart(cs) ==
    IF cs # <<>> /\ IsWhitespace(Head(cs)) THEN TrimStart(Tail(cs)) ELSE cs

RECURSIVE TrimEnd(_)
TrimEnd(cs) ==
    IF cs # <<>> /\ IsWhitespace(cs[Len(cs)])
    THEN TrimEnd(SubSeq(cs, 1, Len(cs) - 1))
    ELSE cs

\* str::trim
Trim(cs) == TrimEnd(TrimStart(cs))

\* ------------------------------------------------------- staged plugins

\* PluginComponent::default_dir_name
DefaultDirName(c) ==
    CASE c = "Commands" -> "commands"
      [] c = "Skills" -> "skills"
      [] c = "Rules" -> "rules"
      [] c = "Contexts" -> "contexts"
      [] c = "Hooks" -> "hooks"
      [] c = "Agents" -> "agents"
      [] c = "McpConfigs" -> "mcp-configs"

\* A component path P the manifest declares: its text, its
\* Path::components(), and what the file system of the tree says about
\* root/P: whether it exists, and where canonicalize() lands, which is the
\* directory `at` below the canonical root or the absolute path `at`.
DeclaredPath(text, components, exists, inside, at) ==
    [text |-> text, components |-> components, exists |-> exists,
     canonical |-> [inside |-> inside, at |-> at]]

\* Path::is_absolute
IsAbsolute(P) == P.components # <<>> /\ Head(P.components) = "RootDir"

\* path.components().any(|component| matches!(component, Component::ParentDir))
HasParentDir(P) == "ParentDir" \in Range(P.components)

\* fs::canonicalize of a location of the tree whose canonical root is root
Canonicalize(root, canonical) ==
    IF canonical.inside THEN root \o canonical.at ELSE canonical.at

\* canonical_candidate.starts_with(&canonical_root)
StartsWith(path, root) ==
    Len(root) <= Len(path) /\ SubSeq(path, 1, Len(root)) = root

\* Where a conventional directory of the tree canonicalizes to.
ConventionalCanonical(t, dir) ==
    IF dir \in t.convEscapes
    THEN [inside |-> FALSE, at |-> <<"elsewhere", dir>>]
    ELSE [inside |-> TRUE, at |-> <<dir>>]

NoPaths == [c \in Range(Components) |-> None]

\* A place a manifest is looked for: nothing there, a file that does not
\* parse, or the manifest of the plugin called name.
NoFile == [exists |-> FALSE, data |-> None]
Unparsable == [exists |-> TRUE, data |-> None]
ManifestOf(name) == [exists |-> TRUE, data |-> Some(name)]

\* A staged plugin root: the manifest (name, license, declared component
\* paths) and the two places it can be at (root_path is <root>/plugin.json,
\* claude_path is <root>/.claude-plugin/plugin.json), the conventional
\* directories present (convDirs), those of them that canonicalize outside
\* the root (convEscapes), whether a directory named scripts exists at any
\* depth, the symlinks the tree holds, and the way the installer was asked
\* for it (via).
Tree(name, license, paths, convDirs, scripts, via) ==
    [name |-> name, root_path |-> ManifestOf(name), claude_path |-> NoFile,
     rootIsDir |-> TRUE, license |-> license,
     paths |-> paths, convDirs |-> convDirs, convEscapes |-> {},
     scripts |-> scripts, symlinks |-> {}, via |-> via]

ViaPath(path) == [kind |-> "path", path |-> path, repo |-> "", reference |-> None]
ViaUrl(url) == [kind |-> "url", path |-> url, repo |-> "", reference |-> None]
ViaGitHub(repo, reference) ==
    [kind |-> "github", path |-> "", repo |-> repo, reference |-> reference]

StagedPlugins ==
    << \* 1: hooks/, commands/ and scripts/ present,
       \*    {"name":"demo","hooks":"./hooks"}, from a local directory
       Tree("demo", None,
            [NoPaths EXCEPT !["Hooks"] =
                Some(DeclaredPath("./hooks", <<"CurDir", "hooks">>, TRUE, TRUE, <<"hooks">>))],
            {"hooks", "commands"}, TRUE, ViaPath("/src/demo")),
       \* 2: {"name":"util"} from github:o/r with no reference
       Tree("util", None, NoPaths, {}, FALSE, ViaGitHub("o/r", None)),
       \* 3: {"name":".."}
       Tree("..", Some("MIT"), NoPaths, {}, FALSE, ViaPath("/src/dotdot")),
       \* 4: {"name":"installed_plugins.json"}
       Tree(REGISTRY_FILENAME, Some("MIT"), NoPaths, {}, FALSE, ViaUrl("https://h/p.zip")),
       \* 5: {"name":"."}
       Tree(".", Some("MIT"), NoPaths, {}, FALSE, ViaPath("/src/dot")),
       \* 6: {"name":"demo","commands":"../evil"}
       Tree("demo", None,
            [NoPaths EXCEPT !["Commands"] =
                Some(DeclaredPath("../evil", <<"ParentDir", "evil">>, FALSE, FALSE,
                                  <<"src", "evil">>))],
            {}, FALSE, ViaPath("/src/evil")),
       \* 7: {"name":"a/b"}
       Tree("a/b", Some("MIT"), NoPaths, {}, FALSE, ViaPath("/src/ab")),
       \* 8: {"name":" "} with a symlink in the tree
       [Tree(" ", Some("MIT"), NoPaths, {}, FALSE, ViaPath("/src/blank"))
            EXCEPT !.symlinks = {"link"}],
       \* 9: no plugin.json at either location
       [Tree("demo", None, NoPaths, {}, FALSE, ViaPath("/src/empty"))
            EXCEPT !.root_path = NoFile] >>

TreeIds == DOMAIN StagedPlugins

\* The staged plugins the model installs into the project scope; the user
\* scope gets them all.
ProjectTrees == {1, 6}

InstallTargets ==
    {st \in Scopes \X TreeIds : st[1] = "User" \/ st[2] \in ProjectTrees}

\* ------------------------------------------------------------- manifest

\* Mutant: <root>/plugin.json is preferred.
LoadManifestRootFirst(t) ==
    LET path == IF t.root_path.exists THEN t.root_path ELSE t.claude_path IN
    IF ~path.exists THEN None ELSE path.data

\* PluginManifest::load_from: the name of the manifest that is read, or
\* None when read_to_string or serde_json::from_str fails.
LoadManifest(t) ==
    LET path == IF t.claude_path.exists THEN t.claude_path ELSE t.root_path IN
    IF ~path.exists THEN None ELSE path.data

\* PluginManifest::component_path
ComponentPath(t, c) == t.paths[c]

\* root.join(default_dir_name).exists()
ConventionalExists(t, c) == DefaultDirName(c) \in t.convDirs

\* Mutant: the canonical candidate is returned wherever it lies.
ResolveComponentDirUnconfined(t, root, c) ==
    IF ComponentPath(t, c) # None
    THEN LET P == ComponentPath(t, c)[1] IN
         IF IsAbsolute(P) \/ HasParentDir(P) THEN None
         ELSE IF ~P.exists THEN None
         ELSE Some(Canonicalize(root, P.canonical))
    ELSE IF ~ConventionalExists(t, c) THEN None
         ELSE Some(Canonicalize(root, ConventionalCanonical(t, DefaultDirName(c))))

\* Mutant: the conventional directory stands in for a declared path that
\* is refused.
ResolveComponentDirFallback(t, root, c) ==
    LET conventional ==
            IF ~ConventionalExists(t, c) THEN None
            ELSE LET canonical_candidate ==
                         Canonicalize(root, ConventionalCanonical(t, DefaultDirName(c)))
                 IN  IF StartsWith(canonical_candidate, root)
                     THEN Some(canonical_candidate)
                     ELSE None
    IN  IF ComponentPath(t, c) # None
        THEN LET P == ComponentPath(t, c)[1]
                 canonical_candidate == Canonicalize(root, P.canonical)
             IN  IF IsAbsolute(P) \/ HasParentDir(P) THEN conventional
                 ELSE IF ~P.exists THEN conventional
                 ELSE IF StartsWith(canonical_candidate, root)
                      THEN Some(canonical_candidate)
                      ELSE conventional
        ELSE conventional

\* PluginManifest::resolve_component_dir(root, component) on the tree t that
\* lies at the canonical path root: the canonical candidate, or None.
ResolveComponentDir(t, root, c) ==
    IF ComponentPath(t, c) # None
    THEN LET P == ComponentPath(t, c)[1]
             canonical_candidate == Canonicalize(root, P.canonical)
         IN  IF IsAbsolute(P) \/ HasParentDir(P) THEN None
             ELSE IF ~P.exists THEN None
             ELSE IF StartsWith(canonical_candidate, root)
                  THEN Some(canonical_candidate)
                  ELSE None
    ELSE IF ~ConventionalExists(t, c) THEN None
         ELSE LET canonical_candidate ==
                      Canonicalize(root, ConventionalCanonical(t, DefaultDirName(c)))
              IN  IF StartsWith(canonical_candidate, root)
                  THEN Some(canonical_candidate)
                  ELSE None

\* The canonical path of the root the installer validates.
StagedRoot == <<"staged">>

\* ------------------------------------------------------------ validator

Err(msg, path) == [msg |-> msg, path |-> path]

\* manifest.name.trim().is_empty() || contains('/') || contains('\\')
NameInvalid(name) ==
    \/ Trim(Chars(name)) = <<>>
    \/ "/" \in Range(Chars(name))
    \/ "\\" \in Range(Chars(name))

\* Mutant: a failing check does not end the pass.
ComponentErrorsNoContinue(t, c) ==
    IF ComponentPath(t, c) = None
    THEN IF ConventionalExists(t, c)
            /\ ~StartsWith(Canonicalize(StagedRoot,
                                        ConventionalCanonical(t, DefaultDirName(c))),
                           StagedRoot)
         THEN <<Err("path escapes plugin root", DefaultDirName(c))>>
         ELSE <<>>
    ELSE LET P == ComponentPath(t, c)[1] IN
         (IF IsAbsolute(P) THEN <<Err("path is absolute", P.text)>> ELSE <<>>)
         \o (IF HasParentDir(P) THEN <<Err("path escapes plugin root", P.text)>> ELSE <<>>)
         \o (IF ~P.exists THEN <<Err("component path missing", P.text)>>
             ELSE IF ~StartsWith(Canonicalize(StagedRoot, P.canonical), StagedRoot)
                  THEN <<Err("path escapes plugin root", P.text)>>
                  ELSE <<>>)

\* One pass of the validator's loop over the components.
ComponentErrors(t, c) ==
    IF ComponentPath(t, c) = None
    THEN IF ConventionalExists(t, c)
            /\ ~StartsWith(Canonicalize(StagedRoot,
                                        ConventionalCanonical(t, DefaultDirName(c))),
                           StagedRoot)
         THEN <<Err("path escapes plugin root", DefaultDirName(c))>>
         ELSE <<>>
    ELSE LET P == ComponentPath(t, c)[1] IN
         IF IsAbsolute(P) THEN <<Err("path is absolute", P.text)>>
         ELSE IF HasParentDir(P) THEN <<Err("path escapes plugin root", P.text)>>
         ELSE IF ~P.exists THEN <<Err("component path missing", P.text)>>
         ELSE IF ~StartsWith(Canonicalize(StagedRoot, P.canonical), StagedRoot)
              THEN <<Err("path escapes plugin root", P.text)>>
         ELSE <<>>

RECURSIVE AllComponentErrors(_, _)
AllComponentErrors(t, i) ==
    IF i > Len(Components) THEN <<>>
    ELSE ComponentErrors(t, Components[i]) \o AllComponentErrors(t, i + 1)

RECURSIVE SymlinkErrors(_)
SymlinkErrors(links) ==
    IF links = {} THEN <<>>
    ELSE LET l == CHOOSE x \in links : TRUE IN
         <<Err("symlink not allowed", l)>> \o SymlinkErrors(links \ {l})

\* hooks_path: the resolved hooks directory, or else root/hooks if it exists.
HooksDetected(t) ==
    \/ ResolveComponentDir(t, StagedRoot, "Hooks") # None
    \/ "hooks" \in t.convDirs

\* Mutant: the license warning does not depend on the policy warning.
ValidatorWarningsBoth(t) ==
    (IF HooksDetected(t) \/ t.scripts
     THEN <<"hooks/scripts detected; policy required">> ELSE <<>>)
    \o (IF t.license = None
        THEN <<"license missing; verify compliance">> ELSE <<>>)

\* needs_policy_warning, and the warnings pushed at the end of validate
ValidatorWarnings(t) ==
    IF HooksDetected(t) \/ t.scripts
    THEN <<"hooks/scripts detected; policy required">>
    ELSE IF t.license = None
         THEN <<"license missing; verify compliance">>
         ELSE <<>>

EmptyReport ==
    [errors |-> <<>>, warnings |-> <<>>, hooks_detected |-> FALSE,
     scripts_detected |-> FALSE]

\* PluginValidator::validate
Validate(t) ==
    IF ~t.rootIsDir
    THEN [EmptyReport EXCEPT !.errors = <<Err("plugin root is not a directory", "")>>]
    ELSE [errors |->
              (IF NameInvalid(LoadManifest(t)[1]) THEN <<Err("plugin name is invalid", "")>> ELSE <<>>)
              \o AllComponentErrors(t, 1)
              \o SymlinkErrors(t.symlinks),
          warnings |-> ValidatorWarnings(t),
          hooks_detected |-> HooksDetected(t),
          scripts_detected |-> t.scripts]

\* ------------------------------------------------------------- registry

\* PluginPolicy::default
DefaultPolicy == [allow_hooks |-> FALSE, allow_scripts |-> FALSE]

\* PluginRegistry::default
DefaultRegistry == [version |-> REGISTRY_VERSION, plugins |-> <<>>]

\* The PluginSource the installer records for a request.
EntrySource(via) ==
    CASE via.kind = "path" -> [tag |-> "LocalPath", path |-> via.path]
      [] via.kind = "url" -> [tag |-> "Url", url |-> via.path]
      [] via.kind = "github" ->
            [tag |-> "GitHub", repo |-> via.repo,
             reference |-> Some(IF via.reference = None THEN "HEAD"
                                ELSE via.reference[1])]

\* serde, rename_all = "snake_case", externally tagged.
SerializeScope(s) == IF s = "User" THEN "user" ELSE "project"

DeserializeScope(j) == IF j = "user" THEN "User" ELSE "Project"

\* Mutant: the reference of a GitHub source is written as null.
SerializeSourceNoReference(src) ==
    CASE src.tag = "LocalPath" -> [local_path |-> src.path]
      [] src.tag = "Url" -> [url |-> src.url]
      [] src.tag = "GitHub" -> [git_hub |-> [repo |-> src.repo, reference |-> None]]
      [] src.tag = "Marketplace" ->
            [marketplace |-> [name |-> src.name, source |-> src.source]]

SerializeSource(src) ==
    CASE src.tag = "LocalPath" -> [local_path |-> src.path]
      [] src.tag = "Url" -> [url |-> src.url]
      [] src.tag = "GitHub" ->
            [git_hub |-> [repo |-> src.repo, reference |-> src.reference]]
      [] src.tag = "Marketplace" ->
            [marketplace |-> [name |-> src.name, source |-> src.source]]

DeserializeSource(j) ==
    CASE "local_path" \in DOMAIN j -> [tag |-> "LocalPath", path |-> j.local_path]
      [] "url" \in DOMAIN j -> [tag |-> "Url", url |-> j.url]
      [] "git_hub" \in DOMAIN j ->
            [tag |-> "GitHub", repo |-> j.git_hub.repo,
             reference |-> j.git_hub.reference]
      [] "marketplace" \in DOMAIN j ->
            [tag |-> "Marketplace", name |-> j.marketplace.name,
             source |-> j.marketplace.source]

\* Mutant: the runtime of an entry is never written.
SerializeEntryWithoutRuntime(e) ==
    [name |-> e.name, enabled |-> e.enabled, scope |-> SerializeScope(e.scope),
     source |-> SerializeSource(e.source), policy |-> e.policy,
     compliance |-> e.compliance]

\* Serialize for PluginRegistryEntry: runtime is skipped when it is None.
SerializeEntry(e) ==
    IF e.runtime = None
    THEN [name |-> e.name, enabled |-> e.enabled, scope |-> SerializeScope(e.scope),
          source |-> SerializeSource(e.source), policy |-> e.policy,
          compliance |-> e.compliance]
    ELSE [name |-> e.name, enabled |-> e.enabled, scope |-> SerializeScope(e.scope),
          source |-> SerializeSource(e.source), policy |-> e.policy,
          compliance |-> e.compliance, runtime |-> e.runtime[1]]

\* Deserialize for PluginRegistryEntry: a missing runtime is None.
DeserializeEntry(j) ==
    [name |-> j.name, enabled |-> j.enabled, scope |-> DeserializeScope(j.scope),
     source |-> DeserializeSource(j.source), policy |-> j.policy,
     compliance |-> j.compliance,
     runtime |-> IF "runtime" \in DOMAIN j THEN Some(j.runtime) ELSE None]

\* serde_json::to_string_pretty(registry)
Serialize(r) ==
    [version |-> r.version,
     plugins |-> [i \in DOMAIN r.plugins |-> SerializeEntry(r.plugins[i])]]

\* serde_json::from_str::<PluginRegistry>
Deserialize(j) ==
    [version |-> IF "version" \in DOMAIN j THEN j.version ELSE REGISTRY_VERSION,
     plugins |-> IF "plugins" \in DOMAIN j
                 THEN [i \in DOMAIN j.plugins |-> DeserializeEntry(j.plugins[i])]
                 ELSE <<>>]

\* Mutant: only the first entry is compared.
FindEntryFirstOnly(r, name) ==
    IF r.plugins # <<>> /\ r.plugins[1].name = name THEN 1 ELSE 0

\* PluginRegistry::find_entry / find_entry_mut: the index of the first entry
\* with that name, 0 when there is none.
FindEntry(r, name) ==
    IF \E i \in DOMAIN r.plugins : r.plugins[i].name = name
    THEN CHOOSE i \in DOMAIN r.plugins :
            /\ r.plugins[i].name = name
            /\ \A k \in 1 .. (i - 1) : r.plugins[k].name # name
    ELSE 0

\* ---------------------------------------------------------------- state

Procs == {"p1", "p2"}

VARIABLES
    fs,        \* the file system: normalised path -> node
    tmp,       \* per invocation: the temporary file of its atomic write
    pc,        \* per invocation: where it is
    call,      \* per invocation: its arguments and local variables
    observed,  \* what a concurrent reader of a registry file last saw
    ops        \* invocations started so far

vars == <<fs, tmp, pc, call, observed, ops>>

\* ---------------------------------------------------------- file system

Files == 1 .. NumFiles
\* The file a home directory holds before any plugin command ran.
OwnFile == 0

Absent == [kind |-> "absent", files |-> {}, text |-> <<>>, torn |-> FALSE]
Dir(files) == [kind |-> "dir", files |-> files, text |-> <<>>, torn |-> FALSE]
File(json, torn) == [kind |-> "file", files |-> {}, text |-> <<json>>, torn |-> torn]

\* PluginStore::user_scope / project_scope: root = <home>/plugins
Home(s) == IF s = "User" THEN <<"codex_home">> ELSE <<".codex">>

Root(s) == Home(s) \o <<"plugins">>

\* PluginStore::registry_path
RegistryPath(s) == Root(s) \o <<REGISTRY_FILENAME>>

\* PluginStore::plugin_dir
PluginDir(s, name) == Root(s) \o <<name>>

\* The names a child of a store root can have in the model.
ChildNames == {"demo", "util", REGISTRY_FILENAME}

AllPaths ==
    UNION {{Home(s), Root(s)} \cup {Root(s) \o <<n>> : n \in ChildNames} : s \in Scopes}

NoPath == <<>>

IsPrefix(a, b) == Len(a) <= Len(b) /\ SubSeq(b, 1, Len(a)) = a

Parent(path) == IF Len(path) <= 1 THEN path ELSE SubSeq(path, 1, Len(path) - 1)

\* Path resolution: every component but the last must be an existing
\* directory; "." stays, ".." goes to the parent.
RECURSIVE Walk(_, _, _)
Walk(f, at, rest) ==
    IF rest = <<>> THEN at
    ELSE IF at \notin DOMAIN f \/ f[at].kind # "dir" THEN NoPath
    ELSE IF Head(rest) = "." THEN Walk(f, at, Tail(rest))
    ELSE IF Head(rest) = ".." THEN Walk(f, Parent(at), Tail(rest))
    ELSE Walk(f, at \o <<Head(rest)>>, Tail(rest))

Resolve(f, path) == Walk(f, <<Head(path)>>, Tail(path))

NodeAt(f, path) ==
    IF Resolve(f, path) \in DOMAIN f THEN f[Resolve(f, path)] ELSE Absent

\* Path::exists
Exists(f, path) == NodeAt(f, path).kind # "absent"

\* fs::create_dir_all(store.root())
CreateDirAll(f, path) ==
    [q \in DOMAIN f |->
        IF IsPrefix(q, path) /\ f[q].kind = "absent" THEN Dir({}) ELSE f[q]]

\* A directory that holds files copied from the staged plugin t.
CopyOf(files, t) == [kind |-> "dir", files |-> files, text |-> <<t>>, torn |-> FALSE]

\* One step of copy_plugin_dir: create_dir_all(target.parent()) and
\* fs::copy(path, target) of file i of the staged plugin t, for a target
\* directly under dest.
CopyFileInto(f, dest, i, t) ==
    LET r == Resolve(f, dest) IN
    [f EXCEPT ![r] = CopyOf(f[r].files \cup {i}, t)]

\* Whether that step can be done: dest resolves, to nothing yet or to a
\* directory.
CanCopyInto(f, dest) ==
    /\ Resolve(f, dest) \in DOMAIN f
    /\ f[Resolve(f, dest)].kind \in {"absent", "dir"}

\* fs::remove_dir_all(path), its result ignored: everything below the
\* directory goes; the directory goes too unless the path ends in "." or
\* "..", which rmdir refuses.  A path that is not a directory is left alone.
RemoveDirAll(f, path) ==
    LET r == Resolve(f, path)
        last == path[Len(path)]
    IN  IF r \notin DOMAIN f \/ f[r].kind # "dir" THEN f
        ELSE [q \in DOMAIN f |->
                IF q = r
                THEN (IF last \in {".", ".."} THEN Dir({}) ELSE Absent)
                ELSE IF IsPrefix(r, q) THEN Absent
                ELSE f[q]]

\* Mutant: a file that does not parse is read as the default registry.
LoadMalformedAsDefault(f, s) ==
    LET n == NodeAt(f, RegistryPath(s)) IN
    IF n.kind = "absent" THEN [err |-> "", registry |-> DefaultRegistry]
    ELSE IF n.kind = "dir" THEN [err |-> "IoError", registry |-> DefaultRegistry]
    ELSE IF n.torn THEN [err |-> "", registry |-> DefaultRegistry]
    ELSE [err |-> "", registry |-> Deserialize(n.text[1])]

\* PluginRegistry::load
Load(f, s) ==
    LET n == NodeAt(f, RegistryPath(s)) IN
    IF n.kind = "absent" THEN [err |-> "", registry |-> DefaultRegistry]
    ELSE IF n.kind = "dir" THEN [err |-> "IoError", registry |-> DefaultRegistry]
    ELSE IF n.torn THEN [err |-> "RegistryCorrupt", registry |-> DefaultRegistry]
    ELSE [err |-> "", registry |-> Deserialize(n.text[1])]

\* --------------------------------------------------- component directories

\* The file of a staged plugin that is its plugin.json.
ManifestFile == 1

\* PluginManifest::load_from(&root) on an installed copy: the staged plugin
\* whose manifest was copied there, or None.
InstalledManifest(f, root) ==
    LET n == NodeAt(f, root) IN
    IF n.kind = "dir" /\ ManifestFile \in n.files /\ n.text # <<>>
    THEN Some(n.text[1])
    ELSE None

\* The directories of the staged plugin are in the copy once a file below
\* them is copied.
InstalledDirs(f, root) ==
    LET n == NodeAt(f, root) IN
    n.kind = "dir" /\ n.files \ {OwnFile, ManifestFile} # {}

\* Mutant: the entries are not filtered by their enabled flag.
RECURSIVE EnabledPluginsOfAll(_, _, _, _)
EnabledPluginsOfAll(f, s, plugins, i) ==
    IF i > Len(plugins) THEN <<>>
    ELSE LET entry == plugins[i]
             root == PluginDir(s, entry.name)
             rest == EnabledPluginsOfAll(f, s, plugins, i + 1)
         IN  IF ~Exists(f, root) THEN rest
             ELSE IF InstalledManifest(f, root) = None THEN rest
             ELSE <<[entry |-> entry, manifest |-> InstalledManifest(f, root)[1],
                     root |-> root]>> \o rest

\* The loop of load_enabled_plugins over the entries of one registry.
RECURSIVE EnabledPluginsOf(_, _, _, _)
EnabledPluginsOf(f, s, plugins, i) ==
    IF i > Len(plugins) THEN <<>>
    ELSE LET entry == plugins[i]
             root == PluginDir(s, entry.name)
             rest == EnabledPluginsOf(f, s, plugins, i + 1)
         IN  IF ~entry.enabled THEN rest
             ELSE IF ~Exists(f, root) THEN rest
             ELSE IF InstalledManifest(f, root) = None THEN rest
             ELSE <<[entry |-> entry, manifest |-> InstalledManifest(f, root)[1],
                     root |-> root]>> \o rest

\* load_enabled_plugins
RECURSIVE LoadEnabledPlugins(_, _)
LoadEnabledPlugins(f, stores) ==
    IF stores = <<>> THEN <<>>
    ELSE LET l == Load(f, Head(stores)) IN
         (IF l.err # "" THEN <<>>
          ELSE EnabledPluginsOf(f, Head(stores), l.registry.plugins, 1))
         \o LoadEnabledPlugins(f, Tail(stores))

\* Mutant: hooks are resolved whatever the policy says.
HiddenByPolicyNever(plugin, component) == FALSE

\* component == PluginComponent::Hooks && !plugin.entry.policy.allow_hooks
HiddenByPolicy(plugin, component) ==
    component = "Hooks" /\ ~plugin.entry.policy.allow_hooks

\* The loop of plugin_component_dirs_from_stores over the loaded plugins.
\* The copy holds no symlink, so a path that resolves is a directory of it.
RECURSIVE ComponentDirsOf(_, _, _, _)
ComponentDirsOf(f, plugins, component, i) ==
    IF i > Len(plugins) THEN <<>>
    ELSE LET plugin == plugins[i]
             rest == ComponentDirsOf(f, plugins, component, i + 1)
             path == IF InstalledDirs(f, plugin.root)
                     THEN ResolveComponentDir(StagedPlugins[plugin.manifest],
                                              Resolve(f, plugin.root), component)
                     ELSE None
         IN  IF HiddenByPolicy(plugin, component) THEN rest
             ELSE IF path = None THEN rest
             ELSE <<[plugin_name |-> plugin.entry.name,
                     scope |-> plugin.entry.scope,
                     path |-> path[1]]>> \o rest

\* plugin_component_dirs_from_stores
PluginComponentDirsFromStores(f, stores, component) ==
    ComponentDirsOf(f, LoadEnabledPlugins(f, stores), component, 1)

\* plugin_stores: the user scope, then the project scope.
PluginStores == <<"User", "Project">>

\* ---------------------------------------------------------- invocations

NoObservation == [seen |-> FALSE, scope |-> "User", node |-> Absent]

IdleCall ==
    [op |-> "none", scope |-> "User", scope_arg |-> None, name |-> "", tree |-> 0,
     source |-> [tag |-> "LocalPath", path |-> ""], report |-> EmptyReport,
     registry |-> DefaultRegistry, entry |-> None, copied |-> 0,
     armed |-> FALSE, text |-> <<>>, old |-> Absent, result |-> "none", at |-> "",
     snap |-> [q \in AllPaths |-> Absent],
     enabled |-> FALSE, allow_hooks |-> None, allow_scripts |-> None]

Init ==
    /\ fs = [q \in AllPaths |->
                IF \E s \in Scopes : q = Home(s) THEN Dir({OwnFile}) ELSE Absent]
    /\ tmp = [p \in Procs |-> "none"]
    /\ pc = [p \in Procs |-> "idle"]
    /\ call = [p \in Procs |-> IdleCall]
    /\ observed = NoObservation
    /\ ops = 0

\* The invocation ends: Ok(..) or Err(..) is returned at pc `at`.
Finish(p, c, result) ==
    /\ pc' = [pc EXCEPT ![p] = "done"]
    /\ call' = [call EXCEPT ![p] = [c EXCEPT !.result = result, !.at = pc[p]]]

\* Mutant: the report's errors are not looked at.
ReportHasErrorsIgnored(report) == FALSE

\* !report.errors.is_empty()
ReportHasErrors(report) == report.errors # <<>>

\* Mutant: the destination is not looked for on disk.
DestExistsUnchecked(f, s, name) == FALSE

\* dest_root.exists()
DestExists(f, s, name) == Exists(f, PluginDir(s, name))

\* Mutant: the new entry's policy allows what the validator detected.
NewEntryAllowingDetected(s, name, source, report) ==
    [name |-> name, enabled |-> TRUE, scope |-> s, source |-> source,
     policy |-> [allow_hooks |-> report.hooks_detected,
                 allow_scripts |-> report.scripts_detected],
     compliance |-> [errors |-> <<>>, warnings |-> report.warnings,
                     hooks_detected |-> report.hooks_detected,
                     scripts_detected |-> report.scripts_detected],
     runtime |-> None]

\* The PluginRegistryEntry install_from_root constructs.
NewEntry(s, name, source, report) ==
    [name |-> name, enabled |-> TRUE, scope |-> s, source |-> source,
     policy |-> DefaultPolicy,
     compliance |-> [errors |-> <<>>, warnings |-> report.warnings,
                     hooks_detected |-> report.hooks_detected,
                     scripts_detected |-> report.scripts_detected],
     runtime |-> None]

\* registry.plugins.push(entry)
PushEntry(r, e) == [r EXCEPT !.plugins = Append(r.plugins, e)]

\* Mutant: the walk stops after the first entry.
CopyCompleteEarly(copied) == copied >= 1

\* The walker of copy_plugin_dir is exhausted.
CopyComplete(copied) == copied = NumFiles

\* The arguments and local variables of an install of the staged plugin t
\* into the store of scope s.
InstallCall(s, t) ==
    [IdleCall EXCEPT !.op = "install", !.scope = s, !.scope_arg = Some(s),
                     !.name = StagedPlugins[t].name, !.tree = t,
                     !.source = EntrySource(StagedPlugins[t].via), !.snap = fs]

\* install_from_root up to the validation: load the manifest, validate,
\* bail on errors.
InstallFromRoot(p, c) ==
    LET tree == StagedPlugins[c.tree] IN
    IF LoadManifest(tree) = None
    THEN Finish(p, c, "ManifestInvalid")
    ELSE LET report == Validate(tree) IN
         IF ReportHasErrors(report)
         THEN Finish(p, [c EXCEPT !.report = report], "ValidationFailed")
         ELSE /\ pc' = [pc EXCEPT ![p] = "checkDest"]
              /\ call' = [call EXCEPT ![p] = [c EXCEPT !.report = report]]

\* An install whose source is a plugin root at hand.
StartInstall(p, s, t) ==
    /\ pc[p] = "idle"
    /\ ops < MaxOps
    /\ ops' = ops + 1
    /\ UNCHANGED <<fs, tmp, observed>>
    /\ InstallFromRoot(p, InstallCall(s, t))

InstallCheckDest(p) ==
    /\ pc[p] = "checkDest"
    /\ UNCHANGED <<fs, tmp, observed, ops>>
    /\ IF DestExists(fs, call[p].scope, call[p].name)
       THEN Finish(p, call[p], "AlreadyInstalled")
       ELSE /\ pc' = [pc EXCEPT ![p] = "loadRegistry"]
            /\ UNCHANGED call

InstallLoadRegistry(p) ==
    LET l == Load(fs, call[p].scope) IN
    /\ pc[p] = "loadRegistry"
    /\ UNCHANGED <<fs, tmp, observed, ops>>
    /\ IF l.err # ""
       THEN Finish(p, call[p], l.err)
       ELSE IF FindEntry(l.registry, call[p].name) # 0
       THEN Finish(p, call[p], "AlreadyRegistered")
       ELSE /\ pc' = [pc EXCEPT ![p] = "createRoot"]
            /\ call' = [call EXCEPT ![p].registry = l.registry]

\* fs::create_dir_all(store.root()), then InstallCleanup::new(&dest_root)
InstallCreateRoot(p) ==
    /\ pc[p] = "createRoot"
    /\ fs' = CreateDirAll(fs, Root(call[p].scope))
    /\ pc' = [pc EXCEPT ![p] = "copy"]
    /\ call' = [call EXCEPT ![p].armed = TRUE]
    /\ UNCHANGED <<tmp, observed, ops>>

InstallCreateRootFail(p) ==
    /\ pc[p] = "createRoot"
    /\ Finish(p, call[p], "IoError")
    /\ UNCHANGED <<fs, tmp, observed, ops>>

\* Drop for InstallCleanup
DropCleanup(f, c) ==
    IF c.armed THEN RemoveDirAll(f, PluginDir(c.scope, c.name)) ELSE f

\* One entry of the walk of copy_plugin_dir; after the last one the guard is
\* disarmed, the entry built and pushed.
InstallCopyFile(p) ==
    LET c == call[p]
        dest == PluginDir(c.scope, c.name)
        n == c.copied + 1
        entry == NewEntry(c.scope, c.name, c.source, c.report)
    IN  /\ pc[p] = "copy"
        /\ UNCHANGED <<tmp, observed, ops>>
        /\ IF CanCopyInto(fs, dest)
           THEN /\ fs' = CopyFileInto(fs, dest, n, c.tree)
                /\ IF CopyComplete(n)
                   THEN /\ pc' = [pc EXCEPT ![p] = "saveBegin"]
                        /\ call' = [call EXCEPT ![p] =
                              [c EXCEPT !.copied = n, !.armed = FALSE,
                                        !.entry = Some(entry),
                                        !.registry = PushEntry(c.registry, entry)]]
                   ELSE /\ pc' = pc
                        /\ call' = [call EXCEPT ![p].copied = n]
           ELSE /\ fs' = DropCleanup(fs, c)
                /\ Finish(p, [c EXCEPT !.armed = FALSE], "IoError")

\* An entry of the walk fails (the walker, create_dir_all or fs::copy): the
\* error returns through the armed guard.
InstallCopyFail(p) ==
    /\ pc[p] = "copy"
    /\ fs' = DropCleanup(fs, call[p])
    /\ Finish(p, [call[p] EXCEPT !.armed = FALSE], "IoError")
    /\ UNCHANGED <<tmp, observed, ops>>

\* --------------------------------------------------- registry.save(path)

SavePcs == {"saveWrite", "saveRename"}

\* Mutant: the text is written over the registry file in place.
RegistrySaveInPlace(p) ==
    LET c == call[p]
        path == RegistryPath(c.scope)
    IN  /\ pc[p] = "saveBegin"
        /\ UNCHANGED <<tmp, ops>>
        /\ observed' = NoObservation
        /\ IF Resolve(fs, path) \in DOMAIN fs /\ fs[Resolve(fs, path)].kind # "dir"
           THEN /\ fs' = [fs EXCEPT ![Resolve(fs, path)] =
                            File(Serialize(c.registry), TRUE)]
                /\ pc' = [pc EXCEPT ![p] = "saveWrite"]
                /\ call' = [call EXCEPT ![p] =
                      [c EXCEPT !.text = <<Serialize(c.registry)>>,
                                !.old = NodeAt(fs, path)]]
           ELSE /\ fs' = fs
                /\ Finish(p, c, "IoError")

\* Mutant: the save reads the file again and keeps the entries it finds there
\* under names the registry in memory does not have.
RegistrySaveMerging(p) ==
    LET c == call[p]
        disk == Load(fs, c.scope).registry
        kept == SelectSeq(disk.plugins, LAMBDA e : FindEntry(c.registry, e.name) = 0)
        merged == [c.registry EXCEPT !.plugins = @ \o kept]
    IN  /\ pc[p] = "saveBegin"
        /\ UNCHANGED <<fs, ops>>
        /\ observed' = NoObservation
        /\ IF NodeAt(fs, Root(c.scope)).kind = "dir"
           THEN /\ tmp' = [tmp EXCEPT ![p] = "partial"]
                /\ pc' = [pc EXCEPT ![p] = "saveWrite"]
                /\ call' = [call EXCEPT ![p] =
                      [c EXCEPT !.text = <<Serialize(merged)>>,
                                !.old = NodeAt(fs, RegistryPath(c.scope))]]
           ELSE /\ tmp' = tmp
                /\ Finish(p, c, "IoError")

\* PluginRegistry::save: serialize, then write_atomically(path, &text), which
\* starts by writing a temporary file in the directory of the target.
RegistrySaveBegin(p) ==
    LET c == call[p] IN
    /\ pc[p] = "saveBegin"
    /\ UNCHANGED <<fs, ops>>
    /\ observed' = NoObservation
    /\ IF NodeAt(fs, Root(c.scope)).kind = "dir"
       THEN /\ tmp' = [tmp EXCEPT ![p] = "partial"]
            /\ pc' = [pc EXCEPT ![p] = "saveWrite"]
            /\ call' = [call EXCEPT ![p] =
                  [c EXCEPT !.text = <<Serialize(c.registry)>>,
                            !.old = NodeAt(fs, RegistryPath(c.scope))]]
       ELSE /\ tmp' = tmp
            /\ Finish(p, c, "IoError")

\* write_atomically: the rest of the text reaches the temporary file.
WriteTempRest(p) ==
    /\ pc[p] = "saveWrite"
    /\ tmp' = [tmp EXCEPT ![p] = "complete"]
    /\ pc' = [pc EXCEPT ![p] = "saveRename"]
    /\ UNCHANGED <<fs, call, observed, ops>>

\* rename(2) of a file replaces a file or creates one; over a directory it fails.
CanRenameOver(f, path) ==
    /\ Resolve(f, path) \in DOMAIN f
    /\ f[Resolve(f, path)].kind \in {"absent", "file"}

\* write_atomically: the temporary file is renamed over the target.
RenameTemp(p) ==
    LET c == call[p]
        path == RegistryPath(c.scope)
    IN  /\ pc[p] = "saveRename"
        /\ tmp' = [tmp EXCEPT ![p] = "none"]
        /\ UNCHANGED <<observed, ops>>
        /\ IF CanRenameOver(fs, path)
           THEN /\ fs' = [fs EXCEPT ![Resolve(fs, path)] = File(c.text[1], FALSE)]
                /\ Finish(p, c, "Ok")
           ELSE /\ fs' = fs
                /\ Finish(p, c, "IoError")

\* registry.save(..)? returns the error of write_atomically.
SaveFail(p) ==
    /\ pc[p] \in SavePcs
    /\ tmp' = [tmp EXCEPT ![p] = "none"]
    /\ Finish(p, call[p], "IoError")
    /\ UNCHANGED <<fs, observed, ops>>

\* ------------------------------------------- enable, disable, policy set

\* Mutant: both stores, whatever --scope says.
StoresForListBoth(scopeArg) == <<"User", "Project">>

\* stores_for_list
StoresForList(scopeArg) ==
    IF scopeArg = None THEN <<"User", "Project">> ELSE <<scopeArg[1]>>

\* Mutant: no match is reported as a match in several scopes.
ResolveStoreForNameNoneAsSeveral(f, scopeArg, name) ==
    LET stores == StoresForList(scopeArg)
        failed == {i \in DOMAIN stores : Load(f, stores[i]).err # ""}
        matches == {i \in DOMAIN stores :
                        FindEntry(Load(f, stores[i]).registry, name) # 0}
    IN  IF failed # {}
        THEN [err |-> Load(f, stores[CHOOSE i \in failed : \A k \in failed : i <= k]).err,
              scope |-> "User"]
        ELSE IF Cardinality(matches) = 1
        THEN [err |-> "", scope |-> stores[CHOOSE i \in matches : TRUE]]
        ELSE [err |-> "AmbiguousScope", scope |-> "User"]

\* Mutant: of several matches the first is taken.
ResolveStoreForNameFirstMatch(f, scopeArg, name) ==
    LET stores == StoresForList(scopeArg)
        failed == {i \in DOMAIN stores : Load(f, stores[i]).err # ""}
        matches == {i \in DOMAIN stores :
                        FindEntry(Load(f, stores[i]).registry, name) # 0}
    IN  IF failed # {}
        THEN [err |-> Load(f, stores[CHOOSE i \in failed : \A k \in failed : i <= k]).err,
              scope |-> "User"]
        ELSE IF matches = {}
        THEN [err |-> "NotInstalled", scope |-> "User"]
        ELSE [err |-> "", scope |-> stores[CHOOSE i \in matches : \A k \in matches : i <= k]]

\* resolve_store_for_name
ResolveStoreForName(f, scopeArg, name) ==
    LET stores == StoresForList(scopeArg)
        failed == {i \in DOMAIN stores : Load(f, stores[i]).err # ""}
        matches == {i \in DOMAIN stores :
                        FindEntry(Load(f, stores[i]).registry, name) # 0}
    IN  IF failed # {}
        THEN [err |-> Load(f, stores[CHOOSE i \in failed : \A k \in failed : i <= k]).err,
              scope |-> "User"]
        ELSE IF Cardinality(matches) = 1
        THEN [err |-> "", scope |-> stores[CHOOSE i \in matches : TRUE]]
        ELSE IF matches = {}
        THEN [err |-> "NotInstalled", scope |-> "User"]
        ELSE [err |-> "AmbiguousScope", scope |-> "User"]

\* Mutant: the flag is flipped.
SetEnabledFlipping(r, i, enabled) == [r EXCEPT !.plugins[i].enabled = ~@]

\* entry.enabled = enabled
SetEnabled(r, i, enabled) == [r EXCEPT !.plugins[i].enabled = enabled]

\* Mutant: a field that is not given is reset.
UpdatedPolicyDefaulting(policy, allow_hooks, allow_scripts) ==
    [allow_hooks |-> IF allow_hooks # None THEN allow_hooks[1] ELSE FALSE,
     allow_scripts |-> IF allow_scripts # None THEN allow_scripts[1] ELSE FALSE]

\* The policy run_policy_set stores: the given fields replace the old ones.
UpdatedPolicy(policy, allow_hooks, allow_scripts) ==
    [allow_hooks |-> IF allow_hooks # None THEN allow_hooks[1] ELSE policy.allow_hooks,
     allow_scripts |-> IF allow_scripts # None THEN allow_scripts[1]
                       ELSE policy.allow_scripts]

SetPolicy(r, i, allow_hooks, allow_scripts) ==
    [r EXCEPT !.plugins[i].policy = UpdatedPolicy(@, allow_hooks, allow_scripts)]

\* run_toggle up to resolve_store_for_name
StartToggle(p, name, scopeArg, enabled) ==
    LET r == ResolveStoreForName(fs, scopeArg, name)
        c == [IdleCall EXCEPT !.op = IF enabled THEN "enable" ELSE "disable",
                              !.name = name, !.enabled = enabled,
                              !.scope_arg = scopeArg,
                              !.scope = r.scope, !.snap = fs]
    IN  /\ pc[p] = "idle"
        /\ ops < MaxOps
        /\ ops' = ops + 1
        /\ UNCHANGED <<fs, tmp, observed>>
        /\ IF r.err # ""
           THEN Finish(p, c, r.err)
           ELSE /\ pc' = [pc EXCEPT ![p] = "load"]
                /\ call' = [call EXCEPT ![p] = c]

\* Mutant: a policy set with no flag is let through.
NoChangeRequestedNever(allow_hooks, allow_scripts) == FALSE

\* args.allow_hooks.is_none() && args.allow_scripts.is_none()
NoChangeRequested(allow_hooks, allow_scripts) ==
    allow_hooks = None /\ allow_scripts = None

\* run_policy_set up to resolve_store_for_name
StartPolicySet(p, name, scopeArg, allow_hooks, allow_scripts) ==
    LET r == ResolveStoreForName(fs, scopeArg, name)
        c == [IdleCall EXCEPT !.op = "policy", !.name = name,
                              !.allow_hooks = allow_hooks,
                              !.allow_scripts = allow_scripts,
                              !.scope_arg = scopeArg,
                              !.scope = r.scope, !.snap = fs]
    IN  /\ pc[p] = "idle"
        /\ ops < MaxOps
        /\ ops' = ops + 1
        /\ UNCHANGED <<fs, tmp, observed>>
        /\ IF NoChangeRequested(allow_hooks, allow_scripts)
           THEN Finish(p, [c EXCEPT !.scope = "User"], "NoChange")
           ELSE IF r.err # ""
           THEN Finish(p, c, r.err)
           ELSE /\ pc' = [pc EXCEPT ![p] = "load"]
                /\ call' = [call EXCEPT ![p] = c]

\* run_toggle / run_policy_set: load the registry of the resolved store, find
\* the entry, change it in memory.
LoadAndEdit(p) ==
    LET c == call[p]
        l == Load(fs, c.scope)
        i == FindEntry(l.registry, c.name)
    IN  /\ pc[p] = "load"
        /\ UNCHANGED <<fs, tmp, observed, ops>>
        /\ IF l.err # ""
           THEN Finish(p, c, l.err)
           ELSE IF i = 0
           THEN Finish(p, c, "NotInstalled")
           ELSE /\ pc' = [pc EXCEPT ![p] = "saveBegin"]
                /\ call' = [call EXCEPT ![p].registry =
                      IF c.op = "policy"
                      THEN SetPolicy(l.registry, i, c.allow_hooks, c.allow_scripts)
                      ELSE SetEnabled(l.registry, i, c.enabled)]

\* ------------------------------------------------------------ plugin list

\* The characters of plugin names in the order of their bytes.
ByteOrder ==
    <<" ", ".", "/", "_", "a", "b", "c", "d", "e", "f", "g", "h", "i", "j", "k",
      "l", "m", "n", "o", "p", "q", "r", "s", "t", "u", "v", "w", "x", "y", "z">>

Byte(c) == CHOOSE i \in DOMAIN ByteOrder : ByteOrder[i] = c

\* a.cmp(&b) of two strings: "Less", "Equal" or "Greater"
RECURSIVE CmpChars(_, _)
CmpChars(a, b) ==
    IF a = <<>> /\ b = <<>> THEN "Equal"
    ELSE IF a = <<>> THEN "Less"
    ELSE IF b = <<>> THEN "Greater"
    ELSE IF Byte(Head(a)) < Byte(Head(b)) THEN "Less"
    ELSE IF Byte(Head(a)) > Byte(Head(b)) THEN "Greater"
    ELSE CmpChars(Tail(a), Tail(b))

Cmp(a, b) == CmpChars(Chars(a), Chars(b))

\* Mutant: the user scope ranks first.
ScopeRankUserFirst(scope) == IF scope = "User" THEN 0 ELSE 1

\* scope_rank
ScopeRank(scope) == IF scope = "Project" THEN 0 ELSE 1

\* The comparator of items.sort_by: a is not after b.
ItemLessEq(a, b) ==
    \/ Cmp(a.name, b.name) = "Less"
    \/ Cmp(a.name, b.name) = "Equal" /\ ScopeRank(a.scope) <= ScopeRank(b.scope)

\* slice::sort_by, a stable sort
RECURSIVE InsertItem(_, _)
InsertItem(sorted, item) ==
    IF sorted = <<>> THEN <<item>>
    ELSE IF ItemLessEq(sorted[Len(sorted)], item) THEN Append(sorted, item)
    ELSE Append(InsertItem(SubSeq(sorted, 1, Len(sorted) - 1), item),
                sorted[Len(sorted)])

RECURSIVE SortItems(_, _)
SortItems(items, sorted) ==
    IF items = <<>> THEN sorted
    ELSE SortItems(Tail(items), InsertItem(sorted, Head(items)))

\* build_list_item, without the cells read from the manifest
BuildListItem(entry) ==
    [name |-> entry.name, scope |-> entry.scope, enabled |-> entry.enabled,
     compliance |-> entry.compliance.warnings]

\* The loop of run_list over the stores: the items pushed, or the error of
\* the first registry that does not load.
RECURSIVE ListItems(_, _)
ListItems(f, stores) ==
    IF stores = <<>> THEN [err |-> "", items |-> <<>>]
    ELSE LET l == Load(f, Head(stores))
             rest == ListItems(f, Tail(stores))
         IN  IF l.err # "" THEN [err |-> l.err, items |-> <<>>]
             ELSE IF rest.err # "" THEN rest
             ELSE [err |-> "",
                   items |-> [i \in DOMAIN l.registry.plugins |->
                                 BuildListItem(l.registry.plugins[i])] \o rest.items]

\* run_list: the rows of the table it prints, none when it prints "No
\* plugins installed", or its error.
RunList(f, scopeArg) ==
    LET l == ListItems(f, StoresForList(scopeArg)) IN
    IF l.err # "" THEN l ELSE [err |-> "", items |-> SortItems(l.items, <<>>)]

\* ----------------------------------------------------- the environment

\* An invocation is saving the registry of scope s, or has just done so.
Saving(p, s) ==
    /\ call[p].scope = s
    /\ \/ pc[p] \in SavePcs
       \/ pc[p] = "done" /\ call[p].at = "saveRename"

\* Another process (plugin list, load_enabled_plugins) reads the registry
\* file of scope s while a save of it is under way or just over.
ReadRegistry(s) ==
    /\ \E p \in Procs : Saving(p, s)
    /\ observed' = [seen |-> TRUE, scope |-> s, node |-> NodeAt(fs, RegistryPath(s))]
    /\ UNCHANGED <<fs, tmp, pc, call, ops>>

\* The process of an install is killed once the copy has begun: nothing more
\* of it runs, no destructor either.
Kill(p) ==
    /\ call[p].op = "install"
    /\ pc[p] \in {"copy", "saveBegin", "saveWrite", "saveRename"}
    /\ pc' = [pc EXCEPT ![p] = "killed"]
    /\ call' = [call EXCEPT ![p].at = pc[p]]
    /\ UNCHANGED <<fs, tmp, observed, ops>>

\* The invocation is over; the next one may start.
Return(p) ==
    /\ pc[p] \in {"done", "killed"}
    /\ pc' = [pc EXCEPT ![p] = "idle"]
    /\ call' = [call EXCEPT ![p] = IdleCall]
    /\ tmp' = [tmp EXCEPT ![p] = "none"]
    /\ observed' = NoObservation
    /\ UNCHANGED <<fs, ops>>

\* The user removes a plugin directory by hand.
RemovePluginDirByHand(s, n) ==
    /\ \A p \in Procs : pc[p] = "idle"
    /\ fs[Root(s) \o <<n>>].kind = "dir"
    /\ fs' = [fs EXCEPT ![Root(s) \o <<n>>] = Absent]
    /\ UNCHANGED <<tmp, pc, call, observed, ops>>

\* ------------------------------------------------------- specification

ToggleNames == {"demo"}
ScopeArgs == {None} \cup {Some(s) : s \in Scopes}
OptBool == {None, Some(TRUE), Some(FALSE)}

\* The steps of an invocation that runs to its return.
Invocation(p) ==
    \/ \E st \in InstallTargets : StartInstall(p, st[1], st[2])
    \/ InstallCheckDest(p)
    \/ InstallLoadRegistry(p)
    \/ InstallCreateRoot(p)
    \/ InstallCreateRootFail(p)
    \/ InstallCopyFile(p)
    \/ InstallCopyFail(p)
    \/ RegistrySaveBegin(p)
    \/ WriteTempRest(p)
    \/ RenameTemp(p)
    \/ SaveFail(p)
    \/ \E n \in ToggleNames, a \in ScopeArgs, e \in BOOLEAN : StartToggle(p, n, a, e)
    \/ \E n \in ToggleNames, a \in ScopeArgs, h \in OptBool, x \in OptBool :
          StartPolicySet(p, n, a, h, x)
    \/ LoadAndEdit(p)
    \/ Return(p)

Step(p) == Invocation(p) \/ Kill(p)

\* One invocation at a time.
Next ==
    \/ Step("p1")
    \/ \E s \in Scopes : ReadRegistry(s)

Spec == Init /\ [][Next]_vars

\* One invocation at a time, each running to its return.
NextNoCrash ==
    \/ Invocation("p1")
    \/ \E s \in Scopes : ReadRegistry(s)

SpecNoCrash == Init /\ [][NextNoCrash]_vars

\* One invocation at a time, and a user who may remove plugin directories.
NextEnv ==
    \/ Next
    \/ \E s \in Scopes, n \in ChildNames \ {REGISTRY_FILENAME} : RemovePluginDirByHand(s, n)

SpecEnv == Init /\ [][NextEnv]_vars

\* Two invocations at a time on the user scope: installs of the two plain
\* plugins, enable and disable of "demo".
ParTargets == {<<"User", 1>>, <<"User", 2>>}

ParStep(p) ==
    \/ \E st \in ParTargets : StartInstall(p, st[1], st[2])
    \/ InstallCheckDest(p)
    \/ InstallLoadRegistry(p)
    \/ InstallCreateRoot(p)
    \/ InstallCreateRootFail(p)
    \/ InstallCopyFile(p)
    \/ InstallCopyFail(p)
    \/ RegistrySaveBegin(p)
    \/ WriteTempRest(p)
    \/ RenameTemp(p)
    \/ SaveFail(p)
    \/ \E n \in ToggleNames, e \in BOOLEAN : StartToggle(p, n, Some("User"), e)
    \/ LoadAndEdit(p)
    \/ Return(p)

NextPar == \E p \in Procs : ParStep(p)

SpecPar == Init /\ [][NextPar]_vars

\* ------------------------------------------------- save, then load
\* registry.save(path) of a registry value built in memory, as the test
\* registry_round_trips does, for every value of a bounded set.

SampleSources ==
    {[tag |-> "LocalPath", path |-> "C:/demo"],
     [tag |-> "Url", url |-> "https://x/p.zip"],
     [tag |-> "GitHub", repo |-> "o/r", reference |-> None],
     [tag |-> "GitHub", repo |-> "o/r", reference |-> Some("v1")],
     [tag |-> "Marketplace", name |-> "demo", source |-> "github:o/r"]}

SampleRuntimes == {None, Some([kind |-> "mcp", entrypoint |-> "run.sh"])}

SampleEntries ==
    {[name |-> "demo", enabled |-> TRUE, scope |-> "User", source |-> src,
      policy |-> DefaultPolicy, compliance |-> EmptyReport, runtime |-> rt] :
        src \in SampleSources, rt \in SampleRuntimes}

SampleRegistries ==
    {[version |-> v, plugins |-> ps] :
        v \in {REGISTRY_VERSION, REGISTRY_VERSION + 1},
        ps \in UNION {[1 .. k -> SampleEntries] : k \in 0 .. MaxEntries}}

InitSave ==
    \E r \in SampleRegistries, s \in Scopes, rootExists \in BOOLEAN :
        /\ fs = [q \in AllPaths |->
                    IF \E t \in Scopes : q = Home(t) THEN Dir({OwnFile})
                    ELSE IF rootExists /\ q = Root(s) THEN Dir({})
                    ELSE Absent]
        /\ tmp = [p \in Procs |-> "none"]
        /\ pc = [p \in Procs |-> IF p = "p1" THEN "saveBegin" ELSE "idle"]
        /\ call = [p \in Procs |->
                      IF p = "p1"
                      THEN [IdleCall EXCEPT !.op = "save", !.scope = s,
                                            !.registry = r, !.snap = fs]
                      ELSE IdleCall]
        /\ observed = NoObservation
        /\ ops = MaxOps

NextSave ==
    \/ RegistrySaveBegin("p1")
    \/ WriteTempRest("p1")
    \/ RenameTemp("p1")
    \/ SaveFail("p1")
    \/ \E s \in Scopes : ReadRegistry(s)

SpecSave == InitSave /\ [][NextSave]_vars

\* ------------------------------------------- a registry file found on disk
\* The user scope's registry file as an invocation may find it: none, one
\* that does not parse, one written without a version field, one that
\* declares the next version, one written by this version.  The files with
\* an entry come with the plugin directory of that entry, a copy of the
\* staged plugin 1.

FoundEntry ==
    [name |-> "demo", enabled |-> TRUE, scope |-> "User",
     source |-> [tag |-> "Marketplace", name |-> "demo", source |-> "github:o/r"],
     policy |-> [allow_hooks |-> TRUE, allow_scripts |-> FALSE],
     compliance |-> [EmptyReport EXCEPT !.hooks_detected = TRUE],
     runtime |-> Some([kind |-> "mcp", entrypoint |-> "run.sh"])]

Malformed == File(Serialize(DefaultRegistry), TRUE)

FoundFiles ==
    {Absent,
     Malformed,
     File([plugins |-> <<SerializeEntry(FoundEntry)>>], FALSE),
     File(Serialize([version |-> REGISTRY_VERSION + 1, plugins |-> <<FoundEntry>>]), FALSE),
     File(Serialize([version |-> REGISTRY_VERSION, plugins |-> <<FoundEntry>>]), FALSE)}

InitLoad ==
    \E found \in FoundFiles :
        /\ fs = [q \in AllPaths |->
                    IF \E t \in Scopes : q = Home(t) THEN Dir({OwnFile})
                    ELSE IF q = Root("User") /\ found # Absent THEN Dir({})
                    ELSE IF q = RegistryPath("User") THEN found
                    ELSE IF q = PluginDir("User", "demo") /\ found \notin {Absent, Malformed}
                    THEN CopyOf(Files, 1)
                    ELSE Absent]
        /\ tmp = [p \in Procs |-> "none"]
        /\ pc = [p \in Procs |-> "idle"]
        /\ call = [p \in Procs |-> IdleCall]
        /\ observed = NoObservation
        /\ ops = MaxOps - FoundOps

SpecLoad == InitLoad /\ [][Next]_vars

\* -------------------------------------------------- a plugin root on its own
\* PluginManifest::load_from, PluginValidator::validate and
\* resolve_component_dir run on one plugin root.  The roots differ in the
\* manifest files they hold and in one component: a path the manifest
\* declares for it, or its conventional directory.

\* Declared paths with the symlinks of the tree they go through.
ProbePaths ==
    { [path |-> DeclaredPath("./dir", <<"CurDir", "dir">>, TRUE, TRUE, <<"dir">>),
       links |-> {}],
      [path |-> DeclaredPath("./gone", <<"CurDir", "gone">>, FALSE, TRUE, <<"gone">>),
       links |-> {}],
      [path |-> DeclaredPath("/abs", <<"RootDir", "abs">>, TRUE, FALSE, <<"abs">>),
       links |-> {}],
      [path |-> DeclaredPath("/staged/dir", <<"RootDir", "staged", "dir">>, TRUE,
                             TRUE, <<"dir">>),
       links |-> {}],
      [path |-> DeclaredPath("../evil", <<"ParentDir", "evil">>, TRUE, FALSE, <<"evil">>),
       links |-> {}],
      [path |-> DeclaredPath("dir/../dir", <<"dir", "ParentDir", "dir">>, TRUE,
                             TRUE, <<"dir">>),
       links |-> {}],
      \* link is a symlink to <root>/dir
      [path |-> DeclaredPath("link", <<"link">>, TRUE, TRUE, <<"dir">>),
       links |-> {"link"}],
      \* out is a symlink to /etc
      [path |-> DeclaredPath("out", <<"out">>, TRUE, FALSE, <<"etc">>),
       links |-> {"out"}],
      \* dangling is a symlink to nothing
      [path |-> DeclaredPath("dangling", <<"dangling">>, FALSE, TRUE, <<"dangling">>),
       links |-> {"dangling"}] }

\* The contents of <root>/plugin.json and <root>/.claude-plugin/plugin.json.
ProbeRootManifests == {NoFile, Unparsable, ManifestOf("demo"), ManifestOf(" ")}
ProbeClaudeManifests == {NoFile, Unparsable, ManifestOf("other")}

\* A root that declares path d for component c, with or without the
\* conventional directory of c beside it.
DeclaringRoot(c, d, conventional) ==
    [Tree("demo", Some("MIT"), [NoPaths EXCEPT ![c] = Some(d.path)],
          IF conventional THEN {DefaultDirName(c)} ELSE {}, FALSE,
          ViaPath("/src/probe"))
        EXCEPT !.symlinks = d.links]

\* A root that declares nothing; the conventional directory of c is there
\* or not, and may be a symlink to a directory outside the root.
ConventionalRoot(c, present, escapes) ==
    [Tree("demo", Some("MIT"), NoPaths,
          IF present THEN {DefaultDirName(c)} ELSE {}, FALSE, ViaPath("/src/probe"))
        EXCEPT !.convEscapes = IF escapes THEN {DefaultDirName(c)} ELSE {},
               !.symlinks = IF escapes THEN {DefaultDirName(c)} ELSE {}]

\* A root that declares a path for Commands and one for Skills.
TwiceDeclaringRoot(d1, d2) ==
    [Tree("demo", Some("MIT"),
          [NoPaths EXCEPT !["Commands"] = Some(d1.path), !["Skills"] = Some(d2.path)],
          {}, FALSE, ViaPath("/src/probe"))
        EXCEPT !.symlinks = d1.links \cup d2.links]

ProbeRoots ==
    { [base EXCEPT !.root_path = rm, !.claude_path = cm,
                   !.symlinks = @ \cup extra,
                   !.license = ls[1], !.scripts = ls[2]] :
        base \in {DeclaringRoot(c, d, FALSE) : c \in Range(Components), d \in ProbePaths}
                 \cup {DeclaringRoot(c, d, TRUE) : c \in {"Commands", "Hooks"}, d \in ProbePaths}
                 \cup {TwiceDeclaringRoot(d1, d2) :
                         d1 \in {d \in ProbePaths : d.path.text \in {"../evil", "./dir"}},
                         d2 \in {d \in ProbePaths : d.path.text \in {"/abs", "./gone", "./dir"}}}
                 \cup {ConventionalRoot(c, pe[1], pe[2]) :
                         c \in Range(Components),
                         pe \in {<<FALSE, FALSE>>, <<TRUE, FALSE>>, <<TRUE, TRUE>>}},
        rm \in ProbeRootManifests,
        cm \in ProbeClaudeManifests,
        extra \in {{}, {"README.link"}},
        \* the license the manifest names, and whether a directory named
        \* scripts is in the tree
        ls \in {None, Some("MIT")} \X BOOLEAN }

ProbeCall(t) ==
    [op |-> "validate", root |-> t, manifest |-> None, report |-> EmptyReport,
     tampered |-> FALSE, component |-> "", resolved |-> None,
     result |-> "none", at |-> ""]

InitValidate ==
    \E t \in ProbeRoots :
        /\ fs = [q \in AllPaths |->
                    IF \E s \in Scopes : q = Home(s) THEN Dir({OwnFile}) ELSE Absent]
        /\ tmp = [p \in Procs |-> "none"]
        /\ pc = [p \in Procs |-> "idle"]
        /\ call = [p \in Procs |-> IF p = "p1" THEN ProbeCall(t) ELSE IdleCall]
        /\ observed = NoObservation
        /\ ops = 0

\* PluginManifest::load_from(root)
LoadFrom(p) ==
    /\ pc[p] = "idle"
    /\ call[p].op = "validate"
    /\ UNCHANGED <<fs, tmp, observed, ops>>
    /\ IF LoadManifest(call[p].root) = None
       THEN Finish(p, call[p], "ManifestInvalid")
       ELSE /\ pc' = [pc EXCEPT ![p] = "validate"]
            /\ call' = [call EXCEPT ![p].manifest = LoadManifest(call[p].root)]

\* PluginValidator::validate(root, &manifest)
ValidateRoot(p) ==
    /\ pc[p] = "validate"
    /\ pc' = [pc EXCEPT ![p] = "resolve"]
    /\ call' = [call EXCEPT ![p].report = Validate(call[p].root)]
    /\ UNCHANGED <<fs, tmp, observed, ops>>

\* Whether the directory of component c is there, wherever it leads.
ComponentDirPresent(t, c) ==
    IF ComponentPath(t, c) # None
    THEN ComponentPath(t, c)[1].exists
    ELSE ConventionalExists(t, c)

\* The root after the directory of component c was replaced by a symlink
\* to a directory outside the root.
Redirected(t, c) ==
    IF ComponentPath(t, c) # None
    THEN [t EXCEPT !.paths[c] =
                       Some([@[1] EXCEPT !.canonical =
                                [inside |-> FALSE, at |-> <<"elsewhere">>]]),
                   !.symlinks = @ \cup {t.paths[c][1].text}]
    ELSE [t EXCEPT !.convEscapes = @ \cup {DefaultDirName(c)},
                   !.symlinks = @ \cup {DefaultDirName(c)}]

\* Between validation and a later resolution someone replaces the directory
\* of a component of a plugin that passed validation.
RedirectComponent(p, c) ==
    /\ pc[p] = "resolve"
    /\ ~call[p].tampered
    /\ call[p].report.errors = <<>>
    /\ ComponentDirPresent(call[p].root, c)
    /\ call' = [call EXCEPT ![p].root = Redirected(call[p].root, c),
                            ![p].tampered = TRUE]
    /\ UNCHANGED <<fs, tmp, pc, observed, ops>>

\* manifest.resolve_component_dir(&root, component)
ResolveDir(p, c) ==
    /\ pc[p] = "resolve"
    /\ UNCHANGED <<fs, tmp, observed, ops>>
    /\ Finish(p, [call[p] EXCEPT !.component = c,
                                 !.resolved = ResolveComponentDir(call[p].root,
                                                                  StagedRoot, c)],
              "Ok")

NextValidate ==
    \/ LoadFrom("p1")
    \/ ValidateRoot("p1")
    \/ \E c \in Range(Components) : RedirectComponent("p1", c)
    \/ \E c \in Range(Components) : ResolveDir("p1", c)

SpecValidate == InitValidate /\ [][NextValidate]_vars

\* ------------------------------------------------------- zip extraction
\* safe_extract_zip on an archive, into a fresh temporary directory.

\* tempfile::tempdir()
Staging == <<"tmp">>

StagingPaths ==
    {Staging, Staging \o <<"a">>, Staging \o <<"b">>, Staging \o <<"a", "b">>}

\* Unix modes an entry can carry: a regular file 0o100644, a directory
\* 0o040755, a symlink 0o120777.
RegularMode == 33188
DirectoryMode == 16877
SymlinkMode == 41471

\* An entry: the components of its name, whether the name ends in "/", and
\* its unix mode if the archive records one.
ZipEntry(name, is_dir, unix_mode) ==
    [name |-> name, is_dir |-> is_dir, unix_mode |-> unix_mode]

ZipNames ==
    {<<"a">>, <<"b">>, <<"a", "b">>, <<"..", "b">>, <<"a", "..", "..", "b">>,
     <<"/", "b">>}

ZipEntries ==
    {ZipEntry(n, k[1], k[2]) :
        n \in ZipNames,
        k \in {<<FALSE, None>>, <<FALSE, Some(RegularMode)>>,
                <<TRUE, Some(DirectoryMode)>>, <<FALSE, Some(SymlinkMode)>>}}

RECURSIVE ZipArchives(_)
ZipArchives(n) ==
    IF n = 0 THEN {<<>>}
    ELSE ZipArchives(n - 1)
         \cup {Append(a, e) : a \in {b \in ZipArchives(n - 1) : Len(b) = n - 1},
                               e \in ZipEntries}

\* ZipFile::enclosed_name: None for a name with a root or one that climbs
\* above where it started, else the name.
RECURSIVE EnclosedDepth(_, _)
EnclosedDepth(name, depth) ==
    IF name = <<>> THEN depth
    ELSE IF Head(name) = "/" THEN -1
    ELSE IF Head(name) = ".." THEN
            (IF depth = 0 THEN -1 ELSE EnclosedDepth(Tail(name), depth - 1))
    ELSE IF Head(name) = "." THEN EnclosedDepth(Tail(name), depth)
    ELSE EnclosedDepth(Tail(name), depth + 1)

EnclosedName(name) == IF EnclosedDepth(name, 0) < 0 THEN None ELSE Some(name)

\* mode & m, for m = S_IFMT: the bits 12 to 15 of mode
FileTypeBits(mode) == ((mode \div 4096) % 16) * 4096

\* Mutant: the mode is compared without masking the permission bits.
IsZipSymlinkUnmasked(entry) ==
    entry.unix_mode # None /\ entry.unix_mode[1] = S_IFLNK

\* is_zip_symlink
IsZipSymlink(entry) ==
    entry.unix_mode # None /\ FileTypeBits(entry.unix_mode[1]) = S_IFLNK

\* fs::create_dir_all(path) succeeds: nothing on the way is a file.
CanCreateDirAll(f, path) ==
    \A q \in DOMAIN f : IsPrefix(q, path) => f[q].kind # "file"

\* fs::File::create(path) succeeds: path is not a directory.
CanCreateFile(f, path) == f[path].kind # "dir"

ExtractCall(archive) ==
    [op |-> "extract", archive |-> archive, index |-> 0, result |-> "none",
     at |-> ""]

InitExtract ==
    \E archive \in ZipArchives(MaxZipEntries) :
        /\ fs = [q \in StagingPaths |-> Absent]
        /\ tmp = [p \in Procs |-> "none"]
        /\ pc = [p \in Procs |-> "idle"]
        /\ call = [p \in Procs |-> IF p = "p1" THEN ExtractCall(archive) ELSE IdleCall]
        /\ observed = NoObservation
        /\ ops = 0

\* extract_zip_bytes_blocking up to the call of safe_extract_zip
ExtractBegin(p) ==
    /\ pc[p] = "idle"
    /\ call[p].op = "extract"
    /\ fs' = [fs EXCEPT ![Staging] = Dir({})]
    /\ pc' = [pc EXCEPT ![p] = "extract"]
    /\ UNCHANGED <<tmp, call, observed, ops>>

\* An error leaves extract_zip_bytes_blocking: temp is dropped.
ExtractFail(p, result) ==
    /\ fs' = RemoveDirAll(fs, Staging)
    /\ Finish(p, call[p], result)

\* One pass of the loop of safe_extract_zip.
ExtractEntry(p) ==
    LET c == call[p]
        entry == c.archive[c.index + 1]
        rel_path == EnclosedName(entry.name)
        out_path == Staging \o rel_path[1]
        parent == Parent(out_path)
        next == [call EXCEPT ![p].index = c.index + 1]
    IN  /\ pc[p] = "extract"
        /\ c.index < Len(c.archive)
        /\ UNCHANGED <<tmp, observed, ops>>
        /\ IF rel_path = None THEN ExtractFail(p, "ArchiveEntryEscapes")
           ELSE IF IsZipSymlink(entry) THEN ExtractFail(p, "ArchiveContainsSymlink")
           ELSE IF entry.is_dir
           THEN IF CanCreateDirAll(fs, out_path)
                THEN /\ fs' = CreateDirAll(fs, out_path)
                     /\ call' = next
                     /\ pc' = pc
                ELSE ExtractFail(p, "IoError")
           ELSE IF CanCreateDirAll(fs, parent) /\ CanCreateFile(fs, out_path)
                THEN /\ fs' = [CreateDirAll(fs, parent) EXCEPT
                                  ![out_path] = File(entry.name, FALSE)]
                     /\ call' = next
                     /\ pc' = pc
                ELSE ExtractFail(p, "IoError")

\* safe_extract_zip returns Ok(()) after the last entry.
ExtractDone(p) ==
    /\ pc[p] = "extract"
    /\ call[p].index = Len(call[p].archive)
    /\ Finish(p, call[p], "Ok")
    /\ UNCHANGED <<fs, tmp, observed, ops>>

NextExtract ==
    \/ ExtractBegin("p1")
    \/ ExtractEntry("p1")
    \/ ExtractDone("p1")

SpecExtract == InitExtract /\ [][NextExtract]_vars

\* --------------------------------------------------- the extracted root
\* detect_plugin_root on a staging directory: the manifest files at its top
\* and its entries, each a file or a directory with its own manifest files.

\* The two places of a directory where a manifest is looked for.
ManifestPlaces ==
    {[root_path |-> rm, claude_path |-> cm] :
        rm \in {NoFile, Unparsable, ManifestOf("demo")},
        cm \in {NoFile, Unparsable, ManifestOf("other")}}

\* An entry of the staging directory.
StagedEntries ==
    {[is_dir |-> FALSE, root_path |-> NoFile, claude_path |-> NoFile]}
    \cup {[is_dir |-> TRUE, root_path |-> m.root_path, claude_path |-> m.claude_path] :
            m \in ManifestPlaces}

ExtractedDirs ==
    {[top |-> m, entries |-> es] :
        m \in ManifestPlaces,
        es \in UNION {[1 .. k -> StagedEntries] : k \in 0 .. MaxChildren}}

\* Mutant: the first candidate is taken however many there are.
PickCandidateFirst(candidates) ==
    IF candidates # <<>> THEN Some(candidates[1]) ELSE None

\* match candidates.as_slice() { [single] => Ok(single), _ => bail!(..) }
PickCandidate(candidates) ==
    IF Len(candidates) = 1 THEN Some(candidates[1]) ELSE None

DetectCall(extracted) ==
    [op |-> "detect", extracted |-> extracted, index |-> 0, candidates |-> <<>>,
     root |-> None, result |-> "none", at |-> ""]

InitDetect ==
    \E extracted \in ExtractedDirs :
        /\ fs = [q \in StagingPaths |-> IF q = Staging THEN Dir({}) ELSE Absent]
        /\ tmp = [p \in Procs |-> "none"]
        /\ pc = [p \in Procs |-> "idle"]
        /\ call = [p \in Procs |-> IF p = "p1" THEN DetectCall(extracted) ELSE IdleCall]
        /\ observed = NoObservation
        /\ ops = 0

\* if PluginManifest::load_from(root).is_ok() { return Ok(root) }
DetectAtTop(p) ==
    /\ pc[p] = "idle"
    /\ call[p].op = "detect"
    /\ UNCHANGED <<fs, tmp, observed, ops>>
    /\ IF LoadManifest(call[p].extracted.top) # None
       THEN Finish(p, [call[p] EXCEPT !.root = Some(Staging)], "Ok")
       ELSE /\ pc' = [pc EXCEPT ![p] = "read_dir"]
            /\ call' = call

\* One pass of the loop over fs::read_dir(root).
DetectEntry(p) ==
    LET c == call[p]
        i == c.index + 1
        entry == c.extracted.entries[i]
    IN  /\ pc[p] = "read_dir"
        /\ c.index < Len(c.extracted.entries)
        /\ call' = [call EXCEPT ![p].index = i,
                                ![p].candidates =
                                    IF entry.is_dir /\ LoadManifest(entry) # None
                                    THEN Append(@, Staging \o <<i>>)
                                    ELSE @]
        /\ UNCHANGED <<fs, tmp, pc, observed, ops>>

\* The match on the candidates, after the loop.
DetectMatch(p) ==
    LET c == call[p] IN
    /\ pc[p] = "read_dir"
    /\ c.index = Len(c.extracted.entries)
    /\ UNCHANGED <<tmp, observed, ops>>
    /\ IF PickCandidate(c.candidates) # None
       THEN /\ Finish(p, [c EXCEPT !.root = PickCandidate(c.candidates)], "Ok")
            /\ fs' = fs
       ELSE \* the error leaves extract_zip_bytes_blocking: temp is dropped
            ExtractFail(p, "ManifestNotFound")

NextDetect ==
    \/ DetectAtTop("p1")
    \/ DetectEntry("p1")
    \/ DetectMatch("p1")

SpecDetect == InitDetect /\ [][NextDetect]_vars

\* ------------------------------------------------- fetch, then install
\* install_from_path, install_from_url and install_from_github as futures
\* that can be dropped where they await.  The invocation is p; the closure
\* handed to spawn_blocking runs on the thread Worker.

Worker == "p2"

\* Mutant: the registry save awaits, too.
SuspensionPointsWithSave ==
    {"send", "bytes", "read", "join", "saveBegin"}

\* The awaits that can return Pending: client.get(url).send(),
\* response.bytes(), tokio::fs::read(source), and the JoinHandle of
\* spawn_blocking.
SuspensionPoints == {"send", "bytes", "read", "join"}

\* What install_from_* has on its stack besides the locals of
\* install_from_root: whether the local source is a zip archive, and
\* whether it holds the MaterializedSource with the TempDir.
FetchCall(s, t, zip) ==
    [x \in DOMAIN IdleCall \cup {"zip", "temp"} |->
        IF x = "zip" THEN zip
        ELSE IF x = "temp" THEN FALSE
        ELSE InstallCall(s, t)[x]]

\* The closure of spawn_blocking: whether its JoinHandle was dropped, and
\* the output it returned.
TaskCall == [op |-> "extract_zip_bytes_blocking", detached |-> FALSE, output |-> "none"]

InitFetch ==
    /\ fs = [q \in AllPaths \cup {Staging} |->
                IF \E s \in Scopes : q = Home(s) THEN Dir({OwnFile}) ELSE Absent]
    /\ tmp = [p \in Procs |-> "none"]
    /\ pc = [p \in Procs |-> "idle"]
    /\ call = [p \in Procs |-> IdleCall]
    /\ observed = NoObservation
    /\ ops = MaxOps - FetchOps

\* The first await of the pipeline: a local directory needs none, a local
\* zip archive is read, a URL or a GitHub repository is downloaded.
StartFetch(p, s, t, zip) ==
    LET via == StagedPlugins[t].via IN
    /\ pc[p] = "idle"
    /\ pc[Worker] = "idle"
    /\ ops < MaxOps
    /\ ops' = ops + 1
    /\ via.kind # "path" => ~zip
    /\ pc' = [pc EXCEPT ![p] = IF via.kind # "path" THEN "send"
                                ELSE IF zip THEN "read"
                                ELSE "materialized"]
    /\ call' = [call EXCEPT ![p] = FetchCall(s, t, zip)]
    /\ UNCHANGED <<fs, tmp, observed>>

\* client.get(url).send().await returned Ok with a success status
SendDone(p) ==
    /\ pc[p] = "send"
    /\ pc' = [pc EXCEPT ![p] = "bytes"]
    /\ UNCHANGED <<fs, tmp, call, observed, ops>>

\* tokio::task::spawn_blocking(move || extract_zip_bytes_blocking(bytes))
Spawn(p) ==
    /\ pc' = [pc EXCEPT ![p] = "join", ![Worker] = "spawned"]
    /\ call' = [call EXCEPT ![Worker] = TaskCall]
    /\ UNCHANGED <<fs, tmp, observed, ops>>

\* response.bytes().await, or tokio::fs::read(source).await, returned Ok
BytesDone(p) ==
    /\ pc[p] \in {"bytes", "read"}
    /\ Spawn(p)

\* send, error_for_status, bytes or read returned an error
FetchFail(p) ==
    /\ pc[p] \in {"send", "bytes", "read"}
    /\ Finish(p, call[p], IF pc[p] = "read" THEN "IoError" ELSE "FetchFailed")
    /\ UNCHANGED <<fs, tmp, observed, ops>>

\* ZipArchive::new and tempfile::tempdir succeed
TaskCreateTemp ==
    /\ pc[Worker] = "spawned"
    /\ fs' = [fs EXCEPT ![Staging] = Dir({})]
    /\ pc' = [pc EXCEPT ![Worker] = "extracting"]
    /\ UNCHANGED <<tmp, call, observed, ops>>

\* ZipArchive::new fails
TaskInvalidArchive ==
    /\ pc[Worker] = "spawned"
    /\ pc' = [pc EXCEPT ![Worker] = "finished"]
    /\ call' = [call EXCEPT ![Worker].output = "ArchiveInvalid"]
    /\ UNCHANGED <<fs, tmp, observed, ops>>

\* safe_extract_zip and detect_plugin_root return Ok: the closure returns
\* the MaterializedSource that holds temp
TaskExtracted ==
    /\ pc[Worker] = "extracting"
    /\ pc' = [pc EXCEPT ![Worker] = "finished"]
    /\ call' = [call EXCEPT ![Worker].output = "Ok"]
    /\ UNCHANGED <<fs, tmp, observed, ops>>

\* safe_extract_zip or detect_plugin_root fails: temp is dropped
TaskExtractFail ==
    /\ pc[Worker] = "extracting"
    /\ fs' = RemoveDirAll(fs, Staging)
    /\ pc' = [pc EXCEPT ![Worker] = "finished"]
    /\ call' = [call EXCEPT ![Worker].output = "ExtractFailed"]
    /\ UNCHANGED <<tmp, observed, ops>>

\* The output of a task whose JoinHandle was dropped is dropped.
TaskDropOutput ==
    /\ pc[Worker] = "finished"
    /\ call[Worker].detached
    /\ fs' = IF call[Worker].output = "Ok" THEN RemoveDirAll(fs, Staging) ELSE fs
    /\ pc' = [pc EXCEPT ![Worker] = "idle"]
    /\ call' = [call EXCEPT ![Worker] = IdleCall]
    /\ UNCHANGED <<tmp, observed, ops>>

\* The JoinHandle is ready.
JoinDone(p) ==
    /\ pc[p] = "join"
    /\ pc[Worker] = "finished"
    /\ IF call[Worker].output = "Ok"
       THEN /\ pc' = [pc EXCEPT ![p] = "materialized", ![Worker] = "idle"]
            /\ call' = [call EXCEPT ![p].temp = TRUE, ![Worker] = IdleCall]
       ELSE /\ pc' = [pc EXCEPT ![p] = "done", ![Worker] = "idle"]
            /\ call' = [call EXCEPT ![p].result = call[Worker].output,
                                    ![p].at = "join", ![Worker] = IdleCall]
    /\ UNCHANGED <<fs, tmp, observed, ops>>

\* install_from_root(store, materialized.root(), entry_source)
InstallMaterialized(p) ==
    /\ pc[p] = "materialized"
    /\ InstallFromRoot(p, call[p])
    /\ UNCHANGED <<fs, tmp, observed, ops>>

\* The future is dropped at an await: its locals are dropped, among them
\* the cleanup guard, the MaterializedSource and the JoinHandle, whose
\* drop drops the output of a task that has finished.
Cancel(p) ==
    LET joined == pc[p] = "join" /\ pc[Worker] = "finished"
        dropsTemp == call[p].temp \/ (joined /\ call[Worker].output = "Ok")
    IN  /\ call[p].op = "install"
        /\ pc[p] \in SuspensionPoints
        /\ fs' = IF dropsTemp
                 THEN RemoveDirAll(DropCleanup(fs, call[p]), Staging)
                 ELSE DropCleanup(fs, call[p])
        /\ pc' = [pc EXCEPT ![p] = "cancelled",
                            ![Worker] = IF joined THEN "idle" ELSE @]
        /\ call' = [call EXCEPT
                        ![p] = [@ EXCEPT !.at = pc[p], !.armed = FALSE, !.temp = FALSE],
                        ![Worker] = IF joined THEN IdleCall
                                    ELSE IF pc[p] = "join"
                                    THEN [@ EXCEPT !.detached = TRUE]
                                    ELSE @]
        /\ UNCHANGED <<tmp, observed, ops>>

\* install_from_* has returned, or was dropped: materialized is dropped
\* with it, and the next invocation may start.
ReturnInstall(p) ==
    /\ pc[p] \in {"done", "cancelled"}
    /\ fs' = IF call[p].temp THEN RemoveDirAll(fs, Staging) ELSE fs
    /\ pc' = [pc EXCEPT ![p] = "idle"]
    /\ call' = [call EXCEPT ![p] = IdleCall]
    /\ tmp' = [tmp EXCEPT ![p] = "none"]
    /\ observed' = NoObservation
    /\ UNCHANGED ops

FetchTargets == {<<"User", 1>>, <<"User", 2>>}

TaskStep ==
    \/ TaskCreateTemp
    \/ TaskInvalidArchive
    \/ TaskExtracted
    \/ TaskExtractFail
    \/ TaskDropOutput

FetchStep(p) ==
    \/ \E st \in FetchTargets, zip \in BOOLEAN : StartFetch(p, st[1], st[2], zip)
    \/ SendDone(p)
    \/ BytesDone(p)
    \/ FetchFail(p)
    \/ JoinDone(p)
    \/ InstallMaterialized(p)
    \/ InstallCheckDest(p)
    \/ InstallLoadRegistry(p)
    \/ InstallCreateRoot(p)
    \/ InstallCreateRootFail(p)
    \/ InstallCopyFile(p)
    \/ InstallCopyFail(p)
    \/ RegistrySaveBegin(p)
    \/ WriteTempRest(p)
    \/ RenameTemp(p)
    \/ SaveFail(p)
    \/ Cancel(p)
    \/ ReturnInstall(p)

NextFetch == FetchStep("p1") \/ TaskStep

\* A blocking task that has started runs to its end, whether or not its
\* JoinHandle is still there.
SpecFetch == InitFetch /\ [][NextFetch]_vars /\ WF_vars(TaskStep)

\* ------------------------------------------------------ source resolution
\* resolve_install_source and the part of run_install around it.  A source
\* string is the sequence of its characters.

GithubPrefix == <<"g", "i", "t", "h", "u", "b", ":">>
GhPrefix == <<"g", "h", ":">>
MarketplacePrefix == <<"m", "a", "r", "k", "e", "t", "p", "l", "a", "c", "e", ":">>
Http == <<"h", "t", "t", "p">>
Https == <<"h", "t", "t", "p", "s">>

\* str::strip_prefix
StripPrefix(cs, prefix) ==
    IF IsPrefix(prefix, cs) THEN Some(SubSeq(cs, Len(prefix) + 1, Len(cs))) ELSE None

\* str::trim_start_matches
RECURSIVE TrimStartMatches(_, _)
TrimStartMatches(cs, prefix) ==
    IF IsPrefix(prefix, cs)
    THEN TrimStartMatches(SubSeq(cs, Len(prefix) + 1, Len(cs)), prefix)
    ELSE cs

\* The index of the first / the last ch in cs, 0 if there is none.
FirstIndex(cs, ch) ==
    IF \E i \in DOMAIN cs : cs[i] = ch
    THEN CHOOSE i \in DOMAIN cs : cs[i] = ch /\ \A k \in 1 .. (i - 1) : cs[k] # ch
    ELSE 0

LastIndex(cs, ch) ==
    IF \E i \in DOMAIN cs : cs[i] = ch
    THEN CHOOSE i \in DOMAIN cs : cs[i] = ch /\ \A k \in (i + 1) .. Len(cs) : cs[k] # ch
    ELSE 0

\* str::split(ch), collected
RECURSIVE Split(_, _)
Split(cs, ch) ==
    LET i == FirstIndex(cs, ch) IN
    IF i = 0 THEN <<cs>>
    ELSE <<SubSeq(cs, 1, i - 1)>> \o Split(SubSeq(cs, i + 1, Len(cs)), ch)

\* Url::parse(source): the scheme is what stands before the first ":"; a
\* URL of scheme http or https needs a host, which is what follows the
\* slashes up to the next "/", after the last "@" of that.
RECURSIVE SkipSlashes(_)
SkipSlashes(cs) ==
    IF cs # <<>> /\ Head(cs) = "/" THEN SkipSlashes(Tail(cs)) ELSE cs

UrlHost(rest) ==
    LET r == SkipSlashes(rest)
        authority == Split(r, "/")[1]
    IN  SubSeq(authority, LastIndex(authority, "@") + 1, Len(authority))

UrlParse(source) ==
    LET input == Trim(source)
        i == FirstIndex(input, ":")
        scheme == SubSeq(input, 1, i - 1)
        host == UrlHost(SubSeq(input, i + 1, Len(input)))
    IN  IF i <= 1 THEN None
        ELSE IF \E k \in DOMAIN scheme : scheme[k] \in {"/", "@", " "} THEN None
        ELSE IF scheme \in {Http, Https}
             /\ (host = <<>> \/ \E k \in DOMAIN host : IsWhitespace(host[k]))
        THEN None
        ELSE Some([scheme |-> scheme, text |-> input])

SourceErr(error) == [tag |-> "Err", error |-> error]

\* split_github_reference
SplitGithubReference(source) ==
    LET parts == Split(source, "@")
        repo == Trim(parts[1])
        reference == IF Len(parts) >= 2 /\ Trim(parts[2]) # <<>>
                     THEN Some(Trim(parts[2]))
                     ELSE None
    IN  IF repo = <<>> THEN SourceErr("SourceMalformed")
        ELSE [tag |-> "GitHub", repo |-> repo, reference |-> reference]

\* Mutant: a source that is no path of the file system is looked up as a
\* marketplace name before it is looked for on the file system.
ResolveInstallSourceNameFirst(f, source, marketplace_path) ==
    LET rest == IF StripPrefix(source, GithubPrefix) # None
                THEN StripPrefix(source, GithubPrefix)
                ELSE StripPrefix(source, GhPrefix)
        url == UrlParse(source)
    IN  IF rest # None THEN SplitGithubReference(rest[1])
        ELSE IF url # None /\ url[1].scheme \in {Http, Https}
        THEN [tag |-> "Url", url |-> url[1].text]
        ELSE IF IsPrefix(MarketplacePrefix, source)
        THEN IF marketplace_path = None THEN SourceErr("MarketplaceUnconfigured")
             ELSE [tag |-> "Marketplace", index_path |-> marketplace_path[1],
                   name |-> Trim(TrimStartMatches(source, MarketplacePrefix))]
        ELSE IF marketplace_path # None
        THEN [tag |-> "Marketplace", index_path |-> marketplace_path[1],
              name |-> source]
        ELSE IF Exists(f, <<source>>)
        THEN [tag |-> "LocalPath", path |-> <<source>>]
        ELSE SourceErr("SourceUnrecognized")

\* resolve_install_source
ResolveInstallSource(f, source, marketplace_path) ==
    LET rest == IF StripPrefix(source, GithubPrefix) # None
                THEN StripPrefix(source, GithubPrefix)
                ELSE StripPrefix(source, GhPrefix)
        url == UrlParse(source)
    IN  IF rest # None THEN SplitGithubReference(rest[1])
        ELSE IF url # None /\ url[1].scheme \in {Http, Https}
        THEN [tag |-> "Url", url |-> url[1].text]
        ELSE IF IsPrefix(MarketplacePrefix, source)
        THEN IF marketplace_path = None THEN SourceErr("MarketplaceUnconfigured")
             ELSE [tag |-> "Marketplace", index_path |-> marketplace_path[1],
                   name |-> Trim(TrimStartMatches(source, MarketplacePrefix))]
        ELSE IF Exists(f, <<source>>)
        THEN [tag |-> "LocalPath", path |-> <<source>>]
        ELSE IF marketplace_path # None
        THEN [tag |-> "Marketplace", index_path |-> marketplace_path[1],
              name |-> source]
        ELSE SourceErr("SourceUnrecognized")

\* The path given with --marketplace, and config.codex_home.join("marketplace.json").
MarketplaceOverride == <<<<"i", "n", "d", "e", "x">>>>
DefaultMarketplace == <<<<"c", "o", "d", "e", "x", "_", "h", "o", "m", "e">>,
                        <<"m", "a", "r", "k", "e", "t", "p", "l", "a", "c", "e">>>>

\* resolve_marketplace_path
ResolveMarketplacePath(override_path) ==
    IF override_path # None THEN override_path ELSE Some(DefaultMarketplace)

\* The name the marketplace index has an entry for.
Demo == <<"d", "e", "m", "o">>

SourcePrefixes ==
    {<<>>, GithubPrefix, GhPrefix, MarketplacePrefix,
     Https \o <<":", "/", "/">>, Http \o <<":", "/", "/">>,
     <<"f", "t", "p", ":", "/", "/">>}

SourceBodies ==
    {<<>>, <<"o", "/", "r">>, <<"o", "/", "r", "@", "a">>,
     <<"o", "/", "r", "@", "a", "@", "b">>,
     <<" ", "o", "/", "r", " ", "@", " ", "a", " ">>,
     <<"@", "a">>, <<"o", "/", "r", "@">>, <<" ">>, Demo}

SourceStrings == {pre \o body : pre \in SourcePrefixes, body \in SourceBodies}

\* The file system the resolver looks at: the path the source names, the
\* two places of the marketplace index.
SourcePaths(source) ==
    {<<source>>, MarketplaceOverride, Parent(DefaultMarketplace), DefaultMarketplace}

ResolveCall(op, source, marketplace) ==
    [op |-> op, source |-> source, marketplace |-> marketplace,
     resolved |-> SourceErr("none"), notice |-> FALSE, result |-> "none", at |-> ""]

\* resolve_install_source is called with a source and an optional index
\* path, or `plugin install` is run with a source and an optional
\* --marketplace; the source may name something that exists, and the index
\* may be there.
InitResolve ==
    \E source \in SourceStrings, op \in {"resolve", "run_install"},
       marketplace \in {None, Some(MarketplaceOverride)},
       source_exists \in BOOLEAN, index_exists \in BOOLEAN :
        /\ source = <<>> => ~source_exists
        /\ fs = [q \in SourcePaths(source) |->
                    IF q = <<source>> THEN (IF source_exists THEN Dir({}) ELSE Absent)
                    ELSE IF q = Parent(DefaultMarketplace) THEN Dir({OwnFile})
                    ELSE IF index_exists THEN File([plugins |-> {Demo}], FALSE)
                    ELSE Absent]
        /\ tmp = [p \in Procs |-> "none"]
        /\ pc = [p \in Procs |-> "idle"]
        /\ call = [p \in Procs |->
                      IF p = "p1" THEN ResolveCall(op, source, marketplace)
                      ELSE IdleCall]
        /\ observed = NoObservation
        /\ ops = 0

\* A call of resolve_install_source(source, marketplace_path)
ResolveSource(p) ==
    LET c == call[p]
        resolved == ResolveInstallSource(fs, c.source, c.marketplace)
    IN  /\ pc[p] = "idle"
        /\ c.op = "resolve"
        /\ Finish(p, [c EXCEPT !.resolved = resolved],
                  IF resolved.tag = "Err" THEN resolved.error ELSE "Ok")
        /\ UNCHANGED <<fs, tmp, observed, ops>>

\* run_install up to the call of the installer: the error it bails with,
\* or "Ok" when an install_from_.. is called.
RunInstall(p) ==
    LET c == call[p]
        marketplace_path == ResolveMarketplacePath(c.marketplace)
        marketplace_exists == Exists(fs, marketplace_path[1])
        resolved == ResolveInstallSource(fs, c.source, marketplace_path)
        notice == ~marketplace_exists /\ resolved.tag # "Marketplace"
    IN  /\ pc[p] = "idle"
        /\ c.op = "run_install"
        /\ UNCHANGED <<fs, tmp, observed, ops>>
        /\ IF resolved.tag = "Err"
           THEN Finish(p, [c EXCEPT !.resolved = resolved], resolved.error)
           ELSE IF resolved.tag # "Marketplace"
           THEN Finish(p, [c EXCEPT !.resolved = resolved, !.notice = notice], "Ok")
           ELSE IF ~Exists(fs, resolved.index_path)
           THEN Finish(p, [c EXCEPT !.resolved = resolved], "MarketplaceIndexMissing")
           ELSE IF resolved.name \notin NodeAt(fs, resolved.index_path).text[1].plugins
           THEN Finish(p, [c EXCEPT !.resolved = resolved], "MarketplaceEntryNotFound")
           ELSE Finish(p, [c EXCEPT !.resolved = resolved], "Ok")

NextResolve ==
    \/ ResolveSource("p1")
    \/ RunInstall("p1")

SpecResolve == InitResolve /\ [][NextResolve]_vars

\* ---------------------------------------------------- the plugins popup
\* ChatWidget::open_plugins_popup, the PluginsToggleView it shows, the
\* channel of the view's AppEventSender, and the ChatWidget methods the
\* events of the view lead to.

\* AppEvent, with the fields of SetPluginEnabled
AppEvent(type, name, scope, enabled) ==
    [type |-> type, name |-> name, scope |-> scope, enabled |-> enabled]

SetPluginEnabled(item) ==
    AppEvent("SetPluginEnabled", item.name, item.scope, item.enabled)
ManagePluginsClosed == AppEvent("ManagePluginsClosed", "", "User", FALSE)
ListSkills == AppEvent("CodexOp(ListSkills)", "", "User", FALSE)
ListCustomPrompts == AppEvent("CodexOp(ListCustomPrompts)", "", "User", FALSE)

\* plugin_key
PluginKey(name, scope) == <<IF scope = "User" THEN "user" ELSE "project", name>>

\* The HashMap built by inserting (plugin_key(item), item.enabled) for the
\* items in order: a later item replaces an earlier one of the same key.
StateOf(items) ==
    [k \in {PluginKey(items[i].name, items[i].scope) : i \in DOMAIN items} |->
        LET last == CHOOSE i \in DOMAIN items :
                        /\ PluginKey(items[i].name, items[i].scope) = k
                        /\ \A j \in DOMAIN items :
                              PluginKey(items[j].name, items[j].scope) = k => j <= i
        IN  items[last].enabled]

\* The registry entries open_plugins_popup can load from the two stores: at
\* most MaxItems, no two of one name in one scope.
PopupEntries ==
    {es \in UNION {[1 .. k -> [name : {"demo", "util"}, scope : Scopes,
                               enabled : BOOLEAN]] : k \in 1 .. MaxItems} :
        \A i, j \in DOMAIN es :
            i # j => PluginKey(es[i].name, es[i].scope) # PluginKey(es[j].name, es[j].scope)}

\* open_plugins_popup with items to show, and PluginsToggleView::new: the
\* fields of the view (items, selected_idx, complete), the events sent on
\* app_event_tx and how many of them the app has handled, the fields of
\* the ChatWidget (plugins_initial_state, plugins_all, the info messages
\* added), and the key events received so far with the last of them.
OpenPluginsPopup(loaded) ==
    LET items == SortItems(loaded, <<>>) IN
    [op |-> "popup", items |-> items, selected_idx |-> Some(1), complete |-> FALSE,
     sent |-> <<>>, handled |-> 0,
     plugins_initial_state |-> Some(StateOf(items)), plugins_all |-> items,
     messages |-> <<>>, keys |-> 0, key |-> "none", result |-> "none", at |-> ""]

InitPopup ==
    \E loaded \in PopupEntries :
        /\ fs = [q \in AllPaths |->
                    IF \E s \in Scopes : q = Home(s) THEN Dir({OwnFile}) ELSE Absent]
        /\ tmp = [p \in Procs |-> "none"]
        /\ pc = [p \in Procs |-> "idle"]
        /\ call = [p \in Procs |->
                      IF p = "p1" THEN OpenPluginsPopup(loaded) ELSE IdleCall]
        /\ observed = NoObservation
        /\ ops = 0

\* handle_key_event(key) or on_ctrl_c() is called on the view.
KeyReceived(p, key) ==
    /\ call[p].op = "popup"
    /\ call[p].keys < MaxKeys
    /\ UNCHANGED <<fs, tmp, pc, observed, ops>>

\* ScrollState::move_up_wrap and move_down_wrap on len rows
MoveUpWrap(selected_idx, len) ==
    IF len = 0 THEN None
    ELSE IF selected_idx = None \/ selected_idx[1] = 1 THEN Some(len)
    ELSE Some(selected_idx[1] - 1)

MoveDownWrap(selected_idx, len) ==
    IF len = 0 THEN None
    ELSE IF selected_idx = None \/ selected_idx[1] = len THEN Some(1)
    ELSE Some(selected_idx[1] + 1)

\* Up, Ctrl-P: move_up
MoveUp(p) ==
    /\ KeyReceived(p, "Up")
    /\ call' = [call EXCEPT ![p].keys = @ + 1, ![p].key = "Up",
                            ![p].selected_idx = MoveUpWrap(@, Len(call[p].items))]

\* Down, Ctrl-N: move_down
MoveDown(p) ==
    /\ KeyReceived(p, "Down")
    /\ call' = [call EXCEPT ![p].keys = @ + 1, ![p].key = "Down",
                            ![p].selected_idx = MoveDownWrap(@, Len(call[p].items))]

\* item.enabled = !item.enabled
Toggled(item) == [item EXCEPT !.enabled = ~@]

\* Space, Enter: toggle_selected
ToggleSelected(p, key) ==
    LET v == call[p] IN
    /\ KeyReceived(p, key)
    /\ IF v.selected_idx = None \/ v.selected_idx[1] \notin DOMAIN v.items
       THEN call' = [call EXCEPT ![p].keys = @ + 1, ![p].key = key]
       ELSE LET idx == v.selected_idx[1]
                item == Toggled(v.items[idx])
            IN  call' = [call EXCEPT ![p].keys = @ + 1, ![p].key = key,
                                     ![p].items[idx] = item,
                                     ![p].sent = Append(@, SetPluginEnabled(item))]

\* Mutant: every close sends its events.
CloseEventsAgain(complete) == <<ManagePluginsClosed, ListSkills, ListCustomPrompts>>

\* The events close() sends
CloseEvents(complete) ==
    IF complete THEN <<>> ELSE <<ManagePluginsClosed, ListSkills, ListCustomPrompts>>

\* Esc, and on_ctrl_c: close
Close(p, key) ==
    /\ KeyReceived(p, key)
    /\ call' = [call EXCEPT ![p].keys = @ + 1, ![p].key = key,
                            ![p].complete = TRUE,
                            ![p].sent = @ \o CloseEvents(call[p].complete)]

\* Any other key
OtherKey(p) ==
    /\ KeyReceived(p, "Other")
    /\ call' = [call EXCEPT ![p].keys = @ + 1, ![p].key = "Other"]

\* ChatWidget::update_plugin_enabled
UpdatePluginEnabled(plugins_all, name, scope, enabled) ==
    [i \in DOMAIN plugins_all |->
        IF plugins_all[i].name = name /\ plugins_all[i].scope = scope
        THEN [plugins_all[i] EXCEPT !.enabled = enabled]
        ELSE plugins_all[i]]

\* Mutant: a plugin is counted for the state it is in.
ChangedCountOfAll(initial_state, current_state, is_enabled) ==
    Cardinality({k \in DOMAIN initial_state :
                    k \in DOMAIN current_state /\ current_state[k] = is_enabled})

\* enabled_count (is_enabled = true) and disabled_count (false) of
\* handle_manage_plugins_closed
ChangedCount(initial_state, current_state, is_enabled) ==
    Cardinality({k \in DOMAIN initial_state :
                    /\ k \in DOMAIN current_state
                    /\ initial_state[k] # current_state[k]
                    /\ current_state[k] = is_enabled})

\* ChatWidget::handle_manage_plugins_closed
HandleManagePluginsClosed(w) ==
    IF w.plugins_initial_state = None THEN w
    ELSE LET initial_state == w.plugins_initial_state[1]
             current_state == StateOf(w.plugins_all)
             enabled_count == ChangedCount(initial_state, current_state, TRUE)
             disabled_count == ChangedCount(initial_state, current_state, FALSE)
         IN  IF enabled_count = 0 /\ disabled_count = 0
             THEN [w EXCEPT !.plugins_initial_state = None]
             ELSE [w EXCEPT !.plugins_initial_state = None,
                            !.messages = Append(@, [enabled |-> enabled_count,
                                                    disabled |-> disabled_count])]

\* The app takes the next event from the channel and calls the ChatWidget
\* method it is for.
HandleAppEvent(p) ==
    LET w == call[p]
        event == w.sent[w.handled + 1]
        next == [w EXCEPT !.handled = @ + 1]
    IN  /\ w.op = "popup"
        /\ w.handled < Len(w.sent)
        /\ UNCHANGED <<fs, tmp, pc, observed, ops>>
        /\ call' = [call EXCEPT ![p] =
              IF event.type = "SetPluginEnabled"
              THEN [next EXCEPT !.plugins_all =
                        UpdatePluginEnabled(@, event.name, event.scope, event.enabled)]
              ELSE IF event.type = "ManagePluginsClosed"
              THEN HandleManagePluginsClosed(next)
              ELSE next]

NextPopup ==
    \/ MoveUp("p1")
    \/ MoveDown("p1")
    \/ \E key \in {"Space", "Enter"} : ToggleSelected("p1", key)
    \/ \E key \in {"Esc", "CtrlC"} : Close("p1", key)
    \/ OtherKey("p1")
    \/ HandleAppEvent("p1")

SpecPopup == InitPopup /\ [][NextPopup]_vars

\* ------------------------------------------------------------- claims

Installing(p) == call[p].op = "install"

\* The install of p returned at pc `at` with `result`.
InstallReturned(p, result) ==
    Installing(p) /\ pc[p] = "done" /\ call[p].result = result

InstallFailed(p) ==
    Installing(p) /\ pc[p] = "done" /\ call[p].result # "Ok"

DestOf(p) == PluginDir(call[p].scope, call[p].name)

\* The registry of the invocation's scope as the disk has it now, and as it
\* had it when the invocation started.
DiskRegistry(p) == Load(fs, call[p].scope).registry
RegistryBefore(p) == Load(call[p].snap, call[p].scope).registry

\* The staged plugin of an install loaded and passed validation.
Validated(p) ==
    /\ Installing(p)
    /\ LoadManifest(StagedPlugins[call[p].tree]) # None
    /\ Validate(StagedPlugins[call[p].tree]).errors = <<>>

PlainName(name) == name \in ChildNames \ {REGISTRY_FILENAME}

\* C1: an install that fails in the directory copy or in the registry save
\* leaves no directory at store.plugin_dir(name) when it returns its error
\* (stated for names whose destination is a child of the store root).
C1_NoResidueAfterFailure ==
    \A p \in Procs :
        /\ InstallFailed(p)
        /\ PlainName(call[p].name)
        /\ call[p].at \in {"copy", "saveBegin", "saveWrite", "saveRename"}
        => ~Exists(fs, DestOf(p))

\* C2: the on-disk registry holds the entry of an install only once every
\* file of the staged tree is in dest_root.
C2_EntryOnlyAfterCopy ==
    \A p \in Procs :
        /\ Installing(p)
        /\ FindEntry(RegistryBefore(p), call[p].name) = 0
        /\ FindEntry(DiskRegistry(p), call[p].name) # 0
        => /\ call[p].copied = NumFiles
           /\ Files \subseteq NodeAt(fs, DestOf(p)).files

C2_Witness ==
    \E p \in Procs :
        /\ InstallReturned(p, "Ok")
        /\ FindEntry(RegistryBefore(p), call[p].name) = 0
        /\ FindEntry(DiskRegistry(p), call[p].name) # 0

\* C3: when the validator reports an error, install fails with
\* ValidationFailed and the file system is as it was before the call: no
\* destination, no store root, no registry file came into being.
C3_ValidationFailureTouchesNothing ==
    \A p \in Procs :
        /\ Installing(p) /\ pc[p] = "done"
        /\ LoadManifest(StagedPlugins[call[p].tree]) # None
        /\ Validate(StagedPlugins[call[p].tree]).errors # <<>>
        => /\ call[p].result = "ValidationFailed"
           /\ fs = call[p].snap
           /\ Exists(fs, DestOf(p)) = Exists(call[p].snap, DestOf(p))
           /\ Exists(fs, Root(call[p].scope)) = Exists(call[p].snap, Root(call[p].scope))
           /\ NodeAt(fs, RegistryPath(call[p].scope))
                 = NodeAt(call[p].snap, RegistryPath(call[p].scope))

C3_Witness ==
    \E p \in Procs :
        /\ InstallReturned(p, "ValidationFailed")
        /\ call[p].report.errors # <<>>
        /\ ~Exists(fs, Root(call[p].scope))
        /\ ~Exists(fs, RegistryPath(call[p].scope))

\* C4: an install of a validated plugin named n fails with AlreadyInstalled
\* when plugin_dir(n) exists, whatever the registry says, and with
\* AlreadyRegistered when it does not exist but the registry has an entry
\* named n; the file system is unchanged in both cases.
C4_AlreadyInstalledOrRegistered ==
    \A p \in Procs :
        Validated(p) /\ pc[p] = "done"
        => /\ Exists(call[p].snap, DestOf(p))
              => call[p].result = "AlreadyInstalled" /\ fs = call[p].snap
           /\ (/\ ~Exists(call[p].snap, DestOf(p))
               /\ FindEntry(RegistryBefore(p), call[p].name) # 0)
              => call[p].result = "AlreadyRegistered" /\ fs = call[p].snap

C4_Witness ==
    \E p \in Procs :
        /\ InstallReturned(p, "AlreadyRegistered")
        /\ ~Exists(fs, DestOf(p))
        /\ FindEntry(DiskRegistry(p), call[p].name) # 0

\* C5: no two entries of a scope's on-disk registry have the same name.
C5_NamesUnique ==
    \A s \in Scopes :
        LET r == Load(fs, s).registry IN
        \A i, j \in DOMAIN r.plugins :
            r.plugins[i].name = r.plugins[j].name => i = j

C5_Witness ==
    \E s \in Scopes : Len(Load(fs, s).registry.plugins) >= 2

\* C6: the destination of a validated install is a direct child of the store
\* root and is not the registry file.
C6_DestIsChildOfRoot ==
    \A p \in Procs :
        Installing(p) /\ pc[p] = "copy"
        => LET d == Resolve(fs, DestOf(p)) IN
           /\ Len(d) = Len(Root(call[p].scope)) + 1
           /\ Parent(d) = Root(call[p].scope)
           /\ d # RegistryPath(call[p].scope)

\* C7: after a successful install the registry reloaded from disk has exactly
\* one entry with the installed name, equal to InstallOutcome.entry, and the
\* entries it had before are still there, unchanged.
C7_ReloadYieldsOutcomeEntry ==
    \A p \in Procs :
        InstallReturned(p, "Ok")
        => LET r == DiskRegistry(p)
               b == RegistryBefore(p)
           IN  /\ Load(fs, call[p].scope).err = ""
               /\ Cardinality({i \in DOMAIN r.plugins :
                                  r.plugins[i].name = call[p].name}) = 1
               /\ r.plugins[FindEntry(r, call[p].name)] = call[p].entry[1]
               /\ Len(r.plugins) = Len(b.plugins) + 1
               /\ \A i \in DOMAIN b.plugins : r.plugins[i] = b.plugins[i]

C7_Witness ==
    \E p \in Procs :
        /\ InstallReturned(p, "Ok")
        /\ RegistryBefore(p).plugins # <<>>
        /\ call[p].entry[1].source.tag = "GitHub"

\* C8: the entry of a successful install is enabled, has the scope of the
\* store, the default policy, no compliance errors, the warnings and
\* detections of the validator's report, and no runtime.
C8_NewEntryFields ==
    \A p \in Procs :
        InstallReturned(p, "Ok")
        => LET e == call[p].entry[1]
               report == Validate(StagedPlugins[call[p].tree])
           IN  /\ e.name = call[p].name
               /\ e.enabled = TRUE
               /\ e.scope = call[p].scope
               /\ e.policy = [allow_hooks |-> FALSE, allow_scripts |-> FALSE]
               /\ e.compliance.errors = <<>>
               /\ e.compliance.warnings = report.warnings
               /\ e.compliance.hooks_detected = report.hooks_detected
               /\ e.compliance.scripts_detected = report.scripts_detected
               /\ e.runtime = None
               /\ DiskRegistry(p).plugins[FindEntry(DiskRegistry(p), e.name)] = e

C8_Witness ==
    \E p \in Procs :
        /\ InstallReturned(p, "Ok")
        /\ call[p].entry[1].compliance.hooks_detected
        /\ call[p].entry[1].compliance.warnings # <<>>
        /\ call[p].scope = "Project"

\* C9: after a kill between the end of the copy and the registry save, the
\* destination directory is absent and the registry file is as before.
C9_KillAfterCopyRollsBack ==
    \A p \in Procs :
        Installing(p) /\ pc[p] = "killed" /\ call[p].at = "saveBegin"
        => /\ ~Exists(fs, DestOf(p))
           /\ NodeAt(fs, RegistryPath(call[p].scope))
                 = NodeAt(call[p].snap, RegistryPath(call[p].scope))

\* C10: while a save is under way the registry file holds its complete
\* previous contents; a reader sees those or the complete new contents,
\* never a torn file; the rename is the only commit.
C10_ReaderSeesOldOrNew ==
    \A p \in Procs :
        /\ pc[p] \in SavePcs
           => NodeAt(fs, RegistryPath(call[p].scope)) = call[p].old
        /\ Saving(p, call[p].scope) /\ observed.seen /\ observed.scope = call[p].scope
           => /\ observed.node \in {call[p].old, File(call[p].text[1], FALSE)}
              /\ ~observed.node.torn

C10_Witness ==
    \E p \in Procs :
        /\ pc[p] = "saveWrite" /\ tmp[p] = "partial"
        /\ observed.seen /\ observed.scope = call[p].scope
        /\ observed.node = call[p].old
        /\ observed.node.kind = "file"

\* C11: when invocations on one scope interleave, every change of the
\* registry file is the rename of one invocation's save, and the file then
\* holds exactly that invocation's in-memory registry: the last writer wins,
\* nothing of the other writer's registry is merged in.
C11_LastWriterWins ==
    [][\A s \in Scopes :
          NodeAt(fs', RegistryPath(s)) # NodeAt(fs, RegistryPath(s))
          => \E p \in Procs :
                /\ pc[p] = "saveRename" /\ pc'[p] = "done"
                /\ call'[p].result = "Ok"
                /\ call[p].scope = s
                /\ Load(fs', s) = [err |-> "", registry |-> call[p].registry]]_vars

\* An enable or disable and an install both saved; the install saved first,
\* from a registry loaded before the other saved, and its entry is gone.
C11_Witness ==
    \E p, q \in Procs :
        /\ p # q
        /\ pc[p] = "done" /\ call[p].result = "Ok" /\ call[p].at = "saveRename"
        /\ InstallReturned(q, "Ok")
        /\ call[p].scope = call[q].scope
        /\ call[p].op \in {"enable", "disable"}
        /\ FindEntry(call[p].registry, call[q].name) = 0
        /\ FindEntry(call[q].registry, call[q].name) # 0
        /\ DiskRegistry(p) = call[p].registry

\* C12: for every registry value r, a save(path) that succeeds followed by
\* load(path) returns r.
C12_SaveThenLoadIsIdentity ==
    \A p \in Procs :
        call[p].op = "save" /\ pc[p] = "done" /\ call[p].result = "Ok"
        => Load(fs, call[p].scope) = [err |-> "", registry |-> call[p].registry]

\* A registry of two entries was saved, one with a runtime and one without,
\* one of them a GitHub source with no reference.
C12_Witness ==
    \E p \in Procs :
        /\ call[p].op = "save" /\ pc[p] = "done" /\ call[p].result = "Ok"
        /\ Len(call[p].registry.plugins) = 2
        /\ call[p].registry.plugins[1].runtime # None
        /\ call[p].registry.plugins[2].runtime = None
        /\ call[p].registry.plugins[2].source.tag = "GitHub"
        /\ call[p].registry.plugins[2].source.reference = None

Edits == {"enable", "disable", "policy"}

\* The scopes whose registry file the invocation of p loads.
ScopesLoaded(p) ==
    IF Installing(p) THEN {call[p].scope}
    ELSE IF call[p].scope_arg = None THEN Scopes ELSE {call[p].scope_arg[1]}

\* A policy set that names a field to set.
FlagGiven(p) ==
    call[p].op = "policy" => call[p].allow_hooks # None \/ call[p].allow_scripts # None

MalformedIn(f, s) ==
    NodeAt(f, RegistryPath(s)).kind = "file" /\ NodeAt(f, RegistryPath(s)).torn

\* C13: a load of an absent registry file gives the default registry and
\* creates no file; a load of a file that does not parse fails with
\* RegistryCorrupt, the invocation goes no further and the file stays as it is.
C13_LoadOfAbsentOrMalformed ==
    \A p \in Procs :
        /\ (/\ Installing(p) /\ pc[p] = "createRoot"
            /\ ~Exists(call[p].snap, RegistryPath(call[p].scope)))
           => /\ call[p].registry = [version |-> REGISTRY_VERSION, plugins |-> <<>>]
              /\ fs = call[p].snap
        /\ (/\ call[p].op \in Edits /\ pc[p] = "done" /\ FlagGiven(p)
            /\ \A s \in ScopesLoaded(p) : ~Exists(call[p].snap, RegistryPath(s)))
           => call[p].result = "NotInstalled" /\ fs = call[p].snap
        /\ \A s \in ScopesLoaded(p) :
              call[p].op # "none" /\ MalformedIn(call[p].snap, s)
              => /\ NodeAt(fs, RegistryPath(s)) = NodeAt(call[p].snap, RegistryPath(s))
                 /\ pc[p] \notin {"createRoot", "copy", "saveBegin"} \cup SavePcs
                 /\ (/\ pc[p] = "done" /\ FlagGiven(p)
                     /\ Installing(p) => call[p].at = "loadRegistry")
                    => call[p].result = "RegistryCorrupt"

\* An install of a valid plugin found a registry file that does not parse.
C13_Witness ==
    \E p \in Procs :
        /\ InstallReturned(p, "RegistryCorrupt")
        /\ Validated(p)
        /\ MalformedIn(fs, call[p].scope)

\* The version a registry file declares, REGISTRY_VERSION when it has no
\* version field.
DeclaredVersion(n) ==
    IF "version" \in DOMAIN n.text[1] THEN n.text[1].version ELSE REGISTRY_VERSION

\* C14: an invocation loads a registry file only if the file declares
\* version 1 or has no version field; a file that declares another version
\* is rejected by the load and the invocation goes no further.
C14_OnlyVersionOneAccepted ==
    \A p \in Procs :
        \A s \in ScopesLoaded(p) :
            LET n == NodeAt(call[p].snap, RegistryPath(s)) IN
            /\ call[p].op # "none"
            /\ n.kind = "file" /\ ~n.torn
            /\ DeclaredVersion(n) # REGISTRY_VERSION
            => /\ pc[p] \notin {"createRoot", "copy", "load", "saveBegin"} \cup SavePcs
               /\ (/\ pc[p] = "done" /\ FlagGiven(p)
                   /\ Installing(p) => call[p].at = "loadRegistry")
                  => call[p].result = "RegistryCorrupt"

\* The edit of p returned Ok.
EditReturnedOk(p, op) ==
    call[p].op = op /\ pc[p] = "done" /\ call[p].result = "Ok"

\* Everything but the registry file of scope s is as it was at the call.
OnlyRegistryChanged(p, s) ==
    \A q \in AllPaths : q # RegistryPath(s) => fs[q] = call[p].snap[q]

\* C15: enable n (disable n) sets the enabled flag of n's entry to true
\* (false); the entry's other fields, the other entries, their order and the
\* plugin directories are as before; on an entry that already has the flag
\* the registry is the same afterwards.
C15_ToggleSetsOnlyEnabled ==
    \A p \in Procs : \A op \in {"enable", "disable"} :
        EditReturnedOk(p, op)
        => LET b == RegistryBefore(p)
               r == DiskRegistry(p)
               i == FindEntry(b, call[p].name)
           IN  /\ i # 0
               /\ r.version = b.version
               /\ Len(r.plugins) = Len(b.plugins)
               /\ \A j \in DOMAIN b.plugins : j # i => r.plugins[j] = b.plugins[j]
               /\ r.plugins[i] = [b.plugins[i] EXCEPT !.enabled = (op = "enable")]
               /\ OnlyRegistryChanged(p, call[p].scope)
               /\ b.plugins[i].enabled = (op = "enable") => r = b

\* A disable of an enabled entry that has a runtime, in a registry of two.
C15_Witness ==
    \E p \in Procs :
        /\ EditReturnedOk(p, "disable")
        /\ Len(RegistryBefore(p).plugins) = 2
        /\ LET i == FindEntry(RegistryBefore(p), call[p].name) IN
           /\ RegistryBefore(p).plugins[i].enabled
           /\ RegistryBefore(p).plugins[i].runtime # None
           /\ ~DiskRegistry(p).plugins[i].enabled

\* The registry of scope s, as it was when p was called, loads and has an
\* entry named as p's argument.
HadEntry(p, s) ==
    /\ Load(call[p].snap, s).err = ""
    /\ \E i \in DOMAIN Load(call[p].snap, s).registry.plugins :
          Load(call[p].snap, s).registry.plugins[i].name = call[p].name

HadNoEntry(p, s) ==
    /\ Load(call[p].snap, s).err = ""
    /\ \A i \in DOMAIN Load(call[p].snap, s).registry.plugins :
          Load(call[p].snap, s).registry.plugins[i].name # call[p].name

\* C16: enable, disable and policy set (with a flag) on a name that no
\* in-scope registry has fail with NotInstalled and leave the file system as
\* it was: no registry file is changed or created.
C16_NotInstalledWritesNothing ==
    \A p \in Procs :
        /\ call[p].op \in Edits /\ pc[p] = "done" /\ FlagGiven(p)
        /\ \A s \in ScopesLoaded(p) : HadNoEntry(p, s)
        => /\ call[p].result = "NotInstalled"
           /\ fs = call[p].snap

\* A policy set without --scope, one scope with a registry that lacks the
\* name and one scope with no registry file.
C16_Witness ==
    \E p \in Procs :
        /\ call[p].op = "policy" /\ pc[p] = "done"
        /\ call[p].result = "NotInstalled"
        /\ call[p].scope_arg = None
        /\ Exists(fs, RegistryPath("User"))
        /\ ~Exists(fs, RegistryPath("Project"))

\* C17: policy set n with allow_hooks and/or allow_scripts given sets the
\* given fields of n's policy to the given values and keeps the field not
\* given; the entry's other fields (enabled among them), the other entries
\* and everything outside the registry file are as before.
C17_PolicySetSetsGivenFields ==
    \A p \in Procs :
        EditReturnedOk(p, "policy")
        => LET b == RegistryBefore(p)
               r == DiskRegistry(p)
               i == FindEntry(b, call[p].name)
           IN  /\ i # 0
               /\ r.version = b.version
               /\ Len(r.plugins) = Len(b.plugins)
               /\ \A j \in DOMAIN b.plugins : j # i => r.plugins[j] = b.plugins[j]
               /\ call[p].allow_hooks # None
                  => r.plugins[i].policy.allow_hooks = call[p].allow_hooks[1]
               /\ call[p].allow_hooks = None
                  => r.plugins[i].policy.allow_hooks = b.plugins[i].policy.allow_hooks
               /\ call[p].allow_scripts # None
                  => r.plugins[i].policy.allow_scripts = call[p].allow_scripts[1]
               /\ call[p].allow_scripts = None
                  => r.plugins[i].policy.allow_scripts = b.plugins[i].policy.allow_scripts
               /\ [r.plugins[i] EXCEPT !.policy = b.plugins[i].policy] = b.plugins[i]
               /\ OnlyRegistryChanged(p, call[p].scope)

\* Only allow_scripts was given, on an entry whose allow_hooks was true and
\* that had been disabled.
C17_Witness ==
    \E p \in Procs :
        /\ EditReturnedOk(p, "policy")
        /\ call[p].allow_hooks = None
        /\ call[p].allow_scripts = Some(TRUE)
        /\ LET i == FindEntry(RegistryBefore(p), call[p].name) IN
           /\ RegistryBefore(p).plugins[i].policy = [allow_hooks |-> TRUE, allow_scripts |-> FALSE]
           /\ ~RegistryBefore(p).plugins[i].enabled
           /\ DiskRegistry(p).plugins[i].policy = [allow_hooks |-> TRUE, allow_scripts |-> TRUE]

\* C18: a policy set with neither allow_hooks nor allow_scripts fails with
\* NoChange, whether the name is installed or not, and leaves the file
\* system, every registry file included, as it was.
C18_NoFlagIsNoChange ==
    \A p \in Procs :
        /\ call[p].op = "policy" /\ pc[p] \in {"load", "saveBegin", "done"} \cup SavePcs
        /\ call[p].allow_hooks = None /\ call[p].allow_scripts = None
        => /\ pc[p] = "done"
           /\ call[p].result = "NoChange"
           /\ fs = call[p].snap

\* The name is installed in the scope the command names.
C18_Witness ==
    \E p \in Procs :
        /\ call[p].op = "policy" /\ pc[p] = "done"
        /\ call[p].result = "NoChange"
        /\ call[p].scope_arg = Some("User")
        /\ HadEntry(p, "User")

\* C19: when both the user and the project registry have an entry of the
\* name, enable, disable and policy set without --scope fail with
\* AmbiguousScope and leave the file system, both registries included, as it was.
C19_AmbiguousWithoutScope ==
    \A p \in Procs :
        /\ call[p].op \in Edits /\ pc[p] \in {"load", "saveBegin", "done"} \cup SavePcs
        /\ FlagGiven(p)
        /\ call[p].scope_arg = None
        /\ \A s \in Scopes : HadEntry(p, s)
        => /\ pc[p] = "done"
           /\ call[p].result = "AmbiguousScope"
           /\ fs = call[p].snap

C19_Witness ==
    \E p \in Procs :
        /\ call[p].op = "disable" /\ pc[p] = "done"
        /\ call[p].result = "AmbiguousScope"
        /\ \A s \in Scopes :
              /\ Exists(fs, PluginDir(s, call[p].name))
              /\ FindEntry(Load(fs, s).registry, call[p].name) # 0

\* C20: enable, disable and policy set with --scope s on a name that the
\* registry of s has work on that registry alone, whatever the other scope
\* holds: they do not fail in the resolution, the entry of scope s is the one
\* updated, and nothing but the registry file of s changes.
C20_ExplicitScopeOnly ==
    \A p \in Procs : \A s \in Scopes :
        /\ call[p].op \in Edits /\ pc[p] = "done" /\ FlagGiven(p)
        /\ call[p].scope_arg = Some(s)
        /\ HadEntry(p, s)
        => /\ call[p].result \in {"Ok", "IoError"}
           /\ call[p].scope = s
           /\ OnlyRegistryChanged(p, s)
           /\ call[p].result = "Ok"
              => LET e == Load(fs, s).registry.plugins[FindEntry(Load(fs, s).registry, call[p].name)]
                 IN  /\ call[p].op = "enable" => e.enabled
                     /\ call[p].op = "disable" => ~e.enabled
                     /\ call[p].op = "policy" /\ call[p].allow_hooks # None
                        => e.policy.allow_hooks = call[p].allow_hooks[1]
                     /\ call[p].op = "policy" /\ call[p].allow_scripts # None
                        => e.policy.allow_scripts = call[p].allow_scripts[1]

\* The name is in both registries; disable --scope project disabled the
\* project entry, the user entry is still enabled.
C20_Witness ==
    \E p \in Procs :
        /\ EditReturnedOk(p, "disable")
        /\ call[p].scope_arg = Some("Project")
        /\ HadEntry(p, "User") /\ HadEntry(p, "Project")
        /\ ~DiskRegistry(p).plugins[FindEntry(DiskRegistry(p), call[p].name)].enabled
        /\ NodeAt(fs, RegistryPath("User")) = NodeAt(call[p].snap, RegistryPath("User"))
        /\ Load(fs, "User").registry.plugins[1].enabled

\* --------------------------------------------------- claims C21 .. C30

\* The Hooks directories the host resolves in the current state.
HooksDirs == Range(PluginComponentDirsFromStores(fs, PluginStores, "Hooks"))

\* The Hooks directories resolved for the plugin name of scope s.
HooksDirsOf(s, name) == {d \in HooksDirs : d.scope = s /\ d.plugin_name = name}

\* C21: in every state reachable by install, enable, disable and policy
\* set, a hooks directory is resolved for a plugin only if the registry of
\* its scope holds an entry of that name with policy.allow_hooks = true; no
\* hooks directory is resolved for a plugin whose install just returned Ok,
\* nor for one whose policy set with allow_hooks = false just returned Ok.
C21_HooksHiddenUnlessAllowed ==
    /\ \A d \in HooksDirs :
          \E j \in DOMAIN Load(fs, d.scope).registry.plugins :
              LET e == Load(fs, d.scope).registry.plugins[j] IN
              e.name = d.plugin_name /\ e.policy.allow_hooks = TRUE
    /\ \A p \in Procs :
          /\ InstallReturned(p, "Ok")
             => HooksDirsOf(call[p].scope, call[p].name) = {}
          /\ EditReturnedOk(p, "policy") /\ call[p].allow_hooks = Some(FALSE)
             => HooksDirsOf(call[p].scope, call[p].name) = {}

\* A policy set with allow_hooks = true returned Ok on a plugin whose hooks
\* were hidden before it, and the plugin's hooks directory is resolved now.
C21_Witness ==
    \E p \in Procs :
        /\ EditReturnedOk(p, "policy")
        /\ call[p].allow_hooks = Some(TRUE)
        /\ ~RegistryBefore(p).plugins[FindEntry(RegistryBefore(p), call[p].name)]
                .policy.allow_hooks
        /\ HooksDirsOf(call[p].scope, call[p].name) =
              {[plugin_name |-> call[p].name, scope |-> call[p].scope,
                path |-> PluginDir(call[p].scope, call[p].name) \o <<"hooks">>]}

\* A root was loaded and validated and a component of it resolved.
Resolved(p) ==
    call[p].op = "validate" /\ pc[p] = "done" /\ call[p].at = "resolve"

\* C22: for a plugin that passed validation and any component, a path that
\* resolve_component_dir returns, which is in canonical form, is the
\* canonical plugin root or below it, also when the directory was replaced
\* after the validation.
C22_ResolvedInsideRoot ==
    \A p \in Procs :
        Resolved(p) /\ call[p].report.errors = <<>> /\ call[p].resolved # None
        => /\ Len(call[p].resolved[1]) >= Len(StagedRoot)
           /\ SubSeq(call[p].resolved[1], 1, Len(StagedRoot)) = StagedRoot

\* The declared hooks path of a plugin that passed validation resolves to
\* <root>/dir.
C22_Witness ==
    \E p \in Procs :
        /\ Resolved(p) /\ call[p].report.errors = <<>>
        /\ call[p].component = "Hooks"
        /\ ComponentPath(call[p].root, "Hooks") # None
        /\ call[p].resolved = Some(StagedRoot \o <<"dir">>)

\* A root was validated and is as it was then.
ValidatedRoot(p) ==
    call[p].op = "validate" /\ pc[p] = "resolve" /\ ~call[p].tampered

\* C23: for a component path P the manifest declares, the validator reports
\* no error if and only if P is relative, has no parent-directory segment,
\* root/P exists and the canonical form of root/P is below the canonical
\* root.  Stated for plugins whose name is valid and whose tree holds no
\* symlink that P does not go through.
C23_AcceptsIffPathConfined ==
    \A p \in Procs :
        ValidatedRoot(p) /\ ~NameInvalid(call[p].manifest[1])
        => \A c \in Range(Components) :
              /\ ComponentPath(call[p].root, c) # None
              /\ call[p].root.symlinks \subseteq {ComponentPath(call[p].root, c)[1].text}
              => LET P == ComponentPath(call[p].root, c)[1] IN
                 (call[p].report.errors = <<>>)
                 <=> /\ ~IsAbsolute(P)
                     /\ ~HasParentDir(P)
                     /\ P.exists
                     /\ P.canonical.inside

\* PluginManifest::load_from returned for the root of p.
ManifestLoadReturned(p) == call[p].op = "validate" /\ pc[p] # "idle"

\* C28: the manifest is read from <root>/.claude-plugin/plugin.json whenever
\* that file is present and from <root>/plugin.json only when it is absent;
\* when both are present the .claude-plugin one decides the result, also
\* when it does not parse.
C28_ClaudePluginManifestWins ==
    \A p \in Procs :
        ManifestLoadReturned(p)
        => LET t == call[p].root
               decides == IF t.claude_path.exists THEN t.claude_path ELSE t.root_path
           IN  /\ call[p].manifest = decides.data
               /\ (call[p].result = "ManifestInvalid") <=> (decides.data = None)

\* Both files are present and parse; the name is that of the .claude-plugin
\* one.
C28_Witness ==
    \E p \in Procs :
        /\ ManifestLoadReturned(p)
        /\ call[p].root.claude_path = ManifestOf("other")
        /\ call[p].root.root_path = ManifestOf("demo")
        /\ call[p].manifest = Some("other")

\* extract_zip_bytes_blocking returned from the extraction.
Extracted(p) == call[p].op = "extract" /\ pc[p] = "done"

\* Some entry's enclosed name leaves the staging root, or some entry has the
\* file type bits of a symlink in its unix mode.
Refused(archive) ==
    \E i \in DOMAIN archive :
        \/ EnclosedName(archive[i].name) = None
        \/ /\ archive[i].unix_mode # None
           /\ (archive[i].unix_mode[1] \div 4096) % 16 = 10

\* Some entry is to be written as a file where another entry needs a
\* directory: at the path of a directory entry, or above another entry.
Clashing(archive) ==
    \E i, j \in DOMAIN archive :
        /\ i # j
        /\ ~archive[i].is_dir
        /\ IsPrefix(archive[i].name, archive[j].name)
        /\ archive[j].is_dir \/ archive[j].name # archive[i].name

StagingRemoved == \A q \in StagingPaths : fs[q].kind = "absent"

SourceResolved(p) ==
    call[p].op \in {"resolve", "run_install"} /\ pc[p] = "done"

\* The index path the resolver was given.
GivenMarketplace(p) ==
    IF call[p].op = "run_install" THEN ResolveMarketplacePath(call[p].marketplace)
    ELSE call[p].marketplace

\* The conditions of the rules of the resolver, each on its own.
HasGithubPrefix(source) == IsPrefix(GithubPrefix, source) \/ IsPrefix(GhPrefix, source)
IsHttpUrl(source) ==
    UrlParse(source) # None /\ UrlParse(source)[1].scheme \in {Http, Https}
HasMarketplacePrefix(source) == IsPrefix(MarketplacePrefix, source)
IsExistingPath(source) == fs[<<source>>].kind # "absent"

\* C25: the resolver applies its rules in the order github:/gh: prefix,
\* URL of scheme http or https, marketplace: prefix, existing path, bare
\* marketplace name when an index path is given, SourceUnrecognized; the
\* first rule whose condition holds decides, whatever later rules would say.
C25_FirstMatchingRuleDecides ==
    \A p \in Procs :
        SourceResolved(p)
        => LET S == call[p].source
               M == GivenMarketplace(p)
               r == call[p].resolved
           IN  IF HasGithubPrefix(S)
               THEN r.tag = "GitHub" \/ r = SourceErr("SourceMalformed")
               ELSE IF IsHttpUrl(S) THEN r.tag = "Url"
               ELSE IF HasMarketplacePrefix(S)
               THEN IF M = None THEN r = SourceErr("MarketplaceUnconfigured")
                    ELSE r.tag = "Marketplace" /\ r.index_path = M[1]
               ELSE IF IsExistingPath(S)
               THEN r = [tag |-> "LocalPath", path |-> <<S>>]
               ELSE IF M # None
               THEN r = [tag |-> "Marketplace", index_path |-> M[1], name |-> S]
               ELSE r = SourceErr("SourceUnrecognized")

\* The source demo is an existing path and, an index path being given, could
\* be a marketplace name: it resolves to LocalPath.
C25_Witness ==
    \E p \in Procs :
        /\ SourceResolved(p)
        /\ call[p].source = Demo
        /\ IsExistingPath(Demo)
        /\ GivenMarketplace(p) # None
        /\ call[p].resolved = [tag |-> "LocalPath", path |-> <<Demo>>]

\* C26: an install whose source string is empty fails with
\* SourceUnrecognized, at the resolver with or without an index path, and
\* through `plugin install`.
C26_EmptySourceUnrecognized ==
    \A p \in Procs :
        SourceResolved(p) /\ call[p].source = <<>>
        => /\ call[p].resolved = SourceErr("SourceUnrecognized")
           /\ call[p].result = "SourceUnrecognized"

\* C29: for a github:/gh: source the rest is split at its first "@": the
\* trimmed text before it is the repo, the whole trimmed text after it is
\* the reference, none if that is empty; an empty repo fails with
\* SourceMalformed.
C29_SplitAtFirstAt ==
    \A p \in Procs :
        SourceResolved(p) /\ HasGithubPrefix(call[p].source)
        => LET S == call[p].source
               rest == IF IsPrefix(GithubPrefix, S)
                       THEN SubSeq(S, Len(GithubPrefix) + 1, Len(S))
                       ELSE SubSeq(S, Len(GhPrefix) + 1, Len(S))
               i == FirstIndex(rest, "@")
               left == IF i = 0 THEN rest ELSE SubSeq(rest, 1, i - 1)
               right == IF i = 0 THEN <<>> ELSE SubSeq(rest, i + 1, Len(rest))
           IN  IF Trim(left) = <<>>
               THEN call[p].resolved = SourceErr("SourceMalformed")
               ELSE call[p].resolved =
                        [tag |-> "GitHub", repo |-> Trim(left),
                         reference |-> IF Trim(right) = <<>> THEN None
                                       ELSE Some(Trim(right))]

\* The entries of the registries plugin list reads for a scope argument.
ListedEntries(scopeArg) ==
    {se \in Scopes \X (1 .. MaxOps) :
        /\ scopeArg = None \/ scopeArg = Some(se[1])
        /\ se[2] \in DOMAIN Load(fs, se[1]).registry.plugins}

\* C27: a plugin list that succeeds has exactly one row for every entry of
\* every registry in scope, both scopes without a scope filter and the named
\* one with it; the rows are ordered by name ascending and, for equal names,
\* the project row comes before the user row; a plugin whose install just
\* returned Ok has a row with status enabled.
C27_ListRowsAndOrder ==
    /\ \A scopeArg \in ScopeArgs :
          LET l == RunList(fs, scopeArg) IN
          l.err = ""
          => /\ Len(l.items) = Cardinality(ListedEntries(scopeArg))
             /\ \A se \in ListedEntries(scopeArg) :
                   LET e == Load(fs, se[1]).registry.plugins[se[2]] IN
                   \E i \in DOMAIN l.items :
                       /\ l.items[i].name = e.name
                       /\ l.items[i].scope = e.scope
                       /\ l.items[i].enabled = e.enabled
                       /\ \A k \in DOMAIN l.items :
                             l.items[k].name = e.name /\ l.items[k].scope = e.scope
                             => k = i
             /\ \A i, k \in DOMAIN l.items :
                   i < k
                   => \/ Cmp(l.items[i].name, l.items[k].name) = "Less"
                      \/ /\ l.items[i].name = l.items[k].name
                         /\ l.items[i].scope = "Project" \/ l.items[k].scope = "User"
    /\ \A p \in Procs :
          InstallReturned(p, "Ok")
          => LET l == RunList(fs, call[p].scope_arg) IN
             /\ l.err = ""
             /\ \E i \in DOMAIN l.items :
                   /\ l.items[i].name = call[p].name
                   /\ l.items[i].scope = call[p].scope
                   /\ l.items[i].enabled

\* demo is installed in both scopes and util in the user scope: the list
\* without a scope filter has the project row of demo first.
C27_Witness ==
    LET l == RunList(fs, None) IN
    /\ l.err = ""
    /\ Len(l.items) = 3
    /\ l.items[1].name = "demo" /\ l.items[1].scope = "Project"
    /\ l.items[2].name = "demo" /\ l.items[2].scope = "User"
    /\ l.items[3].name = "util" /\ l.items[3].scope = "User"
    /\ \E p \in Procs : InstallReturned(p, "Ok")

\* C30: the source stored in the entry of a new install is the source as
\* the resolver captured it: GitHub with the repo and the reference it was
\* given, none if it was given none.
C30_StoredSourceAsResolved ==
    \A p \in Procs :
        InstallReturned(p, "Ok") /\ StagedPlugins[call[p].tree].via.kind = "github"
        => LET via == StagedPlugins[call[p].tree].via
               i == FindEntry(DiskRegistry(p), call[p].name)
           IN  /\ i # 0
               /\ DiskRegistry(p).plugins[i].source =
                      [tag |-> "GitHub", repo |-> via.repo, reference |-> via.reference]
\* --------------------------------------------------- claims C31 .. C40

\* C31: a validation report carries at most one warning: it is
\* "hooks/scripts detected; policy required" exactly when hooks_detected or
\* scripts_detected is true, and "license missing; verify compliance"
\* exactly when neither is detected and the manifest has no license; the
\* two warnings never come together.
C31_AtMostOneWarning ==
    \A p \in Procs :
        ValidatedRoot(p)
        => LET report == call[p].report
               detected == report.hooks_detected \/ report.scripts_detected
               policy == "hooks/scripts detected; policy required"
               license == "license missing; verify compliance"
           IN  /\ Len(report.warnings) <= 1
               /\ (policy \in Range(report.warnings)) <=> detected
               /\ (license \in Range(report.warnings))
                  <=> (~detected /\ call[p].root.license = None)

\* A root with a scripts directory and a manifest without a license was
\* validated: the report has the policy warning alone.
C31_Witness ==
    \E p \in Procs :
        /\ ValidatedRoot(p)
        /\ call[p].root.license = None
        /\ call[p].report.scripts_detected
        /\ call[p].report.warnings = <<"hooks/scripts detected; policy required">>

\* The errors of the component loop that name the declared path P.
DeclaredPathErrors(report, P) ==
    SelectSeq(report.errors,
              LAMBDA e : e.path = P.text /\ e.msg \in {"path is absolute",
                                                       "path escapes plugin root",
                                                       "component path missing"})

\* C32: a component path P the manifest declares contributes at most one
\* error to the report, that of the first failing check among absolute,
\* parent-directory segment, missing, and canonical form outside the root;
\* a plugin whose only defect is one declared path with a parent-directory
\* segment has exactly the one error "path escapes plugin root: P".
C32_OneErrorPerDeclaredPath ==
    \A p \in Procs :
        ValidatedRoot(p)
        => LET t == call[p].root
               declared == {c \in Range(Components) : t.paths[c] # None}
           IN  /\ \A c \in declared :
                     LET P == t.paths[c][1] IN
                     DeclaredPathErrors(call[p].report, P) =
                        IF IsAbsolute(P) THEN <<Err("path is absolute", P.text)>>
                        ELSE IF HasParentDir(P)
                             THEN <<Err("path escapes plugin root", P.text)>>
                        ELSE IF ~P.exists
                             THEN <<Err("component path missing", P.text)>>
                        ELSE IF ~P.canonical.inside
                             THEN <<Err("path escapes plugin root", P.text)>>
                        ELSE <<>>
               /\ \A c \in declared :
                     LET P == t.paths[c][1] IN
                     /\ HasParentDir(P) /\ ~IsAbsolute(P)
                     /\ ~NameInvalid(call[p].manifest[1])
                     /\ t.symlinks = {}
                     /\ \A d \in declared \ {c} :
                           DeclaredPathErrors(call[p].report, t.paths[d][1]) = <<>>
                     => call[p].report.errors =
                           <<Err("path escapes plugin root", P.text)>>

\* {"name":"demo","commands":"../evil"} with an existing ../evil was
\* validated: one error.
C32_Witness ==
    \E p \in Procs :
        /\ ValidatedRoot(p)
        /\ call[p].root.paths["Commands"] # None
        /\ call[p].root.paths["Commands"][1].text = "../evil"
        /\ call[p].root.paths["Commands"][1].exists
        /\ call[p].report.errors = <<Err("path escapes plugin root", "../evil")>>

\* C33: in resolve_component_dir a path the manifest declares takes
\* precedence over the conventional directory: when the declared path is
\* absolute, has a parent-directory segment, is missing or canonicalizes
\* outside the root the result is absent, also when the conventional
\* directory exists; otherwise the result is the declared directory; the
\* conventional directory is used only when no path is declared.
C33_DeclaredPathTakesPrecedence ==
    \A p \in Procs :
        Resolved(p)
        => LET t == call[p].root
               c == call[p].component
           IN  IF t.paths[c] # None
               THEN LET P == t.paths[c][1] IN
                    IF IsAbsolute(P) \/ HasParentDir(P) \/ ~P.exists
                       \/ ~P.canonical.inside
                    THEN call[p].resolved = None
                    ELSE call[p].resolved = Some(StagedRoot \o P.canonical.at)
               ELSE call[p].resolved # None
                    => /\ DefaultDirName(c) \in t.convDirs
                       /\ call[p].resolved = Some(StagedRoot \o <<DefaultDirName(c)>>)

\* The manifest declares a missing path for Commands, <root>/commands
\* exists, and nothing is resolved for Commands.
C33_Witness ==
    \E p \in Procs :
        /\ Resolved(p)
        /\ call[p].component = "Commands"
        /\ call[p].root.paths["Commands"] # None
        /\ ~call[p].root.paths["Commands"][1].exists
        /\ "commands" \in call[p].root.convDirs
        /\ call[p].resolved = None

\* The directories the host resolves for component c in the current state,
\* and those of them that belong to the plugin name of scope s.
ComponentDirsFor(c) == Range(PluginComponentDirsFromStores(fs, PluginStores, c))
ComponentDirsOfPlugin(c, s, name) ==
    {d \in ComponentDirsFor(c) : d.scope = s /\ d.plugin_name = name}

\* C34: in every state reachable by install, enable and disable (and policy
\* set), no component directory is returned, for any component, for a
\* plugin whose registry entry has enabled = false; and once enable of a
\* plugin whose copy has a commands directory returned Ok, that directory
\* is returned again.
C34_OnlyEnabledPluginsContribute ==
    /\ \A s \in Scopes :
          \A j \in DOMAIN Load(fs, s).registry.plugins :
              LET e == Load(fs, s).registry.plugins[j] IN
              ~e.enabled
              => \A c \in Range(Components) : ComponentDirsOfPlugin(c, s, e.name) = {}
    /\ \A p \in Procs :
          /\ EditReturnedOk(p, "enable")
          /\ InstalledManifest(fs, DestOf(p)) = Some(1)
          /\ InstalledDirs(fs, DestOf(p))
          => ComponentDirsOfPlugin("Commands", call[p].scope, call[p].name) =
                {[plugin_name |-> call[p].name, scope |-> call[p].scope,
                  path |-> DestOf(p) \o <<"commands">>]}

\* enable returned Ok on a plugin that was disabled, whose commands
\* directory was not returned before and is returned now.
C34_Witness ==
    \E p \in Procs :
        /\ EditReturnedOk(p, "enable")
        /\ ~RegistryBefore(p).plugins[FindEntry(RegistryBefore(p), call[p].name)].enabled
        /\ Range(PluginComponentDirsFromStores(call[p].snap, PluginStores, "Commands")) = {}
        /\ ComponentDirsOfPlugin("Commands", call[p].scope, call[p].name) # {}

\* detect_plugin_root returned for the staging directory of p.
Detected(p) == call[p].op = "detect" /\ pc[p] = "done"

\* The entries of the staging directory that are directories with a
\* manifest that loads.
LoadableChildren(extracted) ==
    {i \in DOMAIN extracted.entries :
        LET e == extracted.entries[i]
            decides == IF e.claude_path.exists THEN e.claude_path ELSE e.root_path
        IN  e.is_dir /\ decides.data # None}

\* C36: after extraction the plugin root is the staging root when that
\* holds a loadable manifest; otherwise it is the single immediate child
\* directory that holds one; with no such child, or with two or more, the
\* install fails with ManifestNotFound.
C36_RootOrSingleChild ==
    \A p \in Procs :
        Detected(p)
        => LET top == call[p].extracted.top
               decides == IF top.claude_path.exists THEN top.claude_path
                          ELSE top.root_path
               children == LoadableChildren(call[p].extracted)
           IN  IF decides.data # None
               THEN call[p].result = "Ok" /\ call[p].root = Some(Staging)
               ELSE IF Cardinality(children) = 1
               THEN /\ call[p].result = "Ok"
                    /\ \E i \in children : call[p].root = Some(Staging \o <<i>>)
               ELSE call[p].result = "ManifestNotFound" /\ call[p].root = None

\* Two sibling directories each hold a loadable manifest, the staging root
\* holds none: ManifestNotFound.
C36_Witness ==
    \E p \in Procs :
        /\ Detected(p)
        /\ Cardinality(LoadableChildren(call[p].extracted)) = 2
        /\ call[p].result = "ManifestNotFound"

\* The install of p was dropped at an await.
Cancelled(p) == call[p].op = "install" /\ pc[p] = "cancelled"

\* C35: when an install is cancelled at one of its suspension points (HTTP
\* GET, body read, archive file read, await of the extraction task), no
\* destination directory was created for it and the registry on disk is as
\* it was, the stores being as they were when it started; it was not
\* between the start of the destination copy and the registry save; and
\* its staging directory is eventually removed.
C35_CancelLeavesNothing ==
    /\ [](\A p \in Procs :
            Cancelled(p)
            => /\ \A q \in AllPaths : fs[q] = call[p].snap[q]
               /\ call[p].at \notin {"copy", "saveBegin", "saveWrite", "saveRename"}
               /\ call[p].copied = 0)
    /\ \A p \in Procs : Cancelled(p) ~> (fs[Staging].kind = "absent")

\* An install was cancelled while it awaited the extraction task, which
\* had created the staging directory and was not done with it.
C35_Witness ==
    \E p \in Procs :
        /\ Cancelled(p)
        /\ call[p].at = "join"
        /\ fs[Staging].kind = "dir"
        /\ pc[Worker] = "extracting"

\* The step is the rollback of p's install: the guard is dropped armed and
\* the destination directory, which was there, is gone.
RolledBack(p) ==
    /\ Installing(p)
    /\ call[p].armed /\ ~call'[p].armed
    /\ pc'[p] = "done" /\ call'[p].result # "Ok"
    /\ Exists(fs, DestOf(p)) /\ ~Exists(fs', DestOf(p))

\* C37: the rollback of an install removes only a destination directory
\* that this invocation created: the invocation has copied into it, no
\* other install of the same name and scope that is copying or has saved
\* has files in it, and no entry of the scope's registry on disk refers to
\* it; also when two installs of one name and scope interleave and one of
\* them fails during its copy.
C37_RollbackRemovesOnlyOwnDir ==
    [][\A p \in Procs :
          RolledBack(p)
          => /\ call[p].copied > 0
             /\ \A q \in Procs \ {p} :
                   ~(/\ Installing(q)
                     /\ DestOf(q) = DestOf(p)
                     /\ call[q].copied > 0
                     /\ pc[q] \in {"copy", "saveBegin", "saveWrite", "saveRename"}
                        \/ InstallReturned(q, "Ok"))
             /\ FindEntry(DiskRegistry(p), call[p].name) = 0]_vars

\* No invocation is under way.
Quiescent == \A p \in Procs : pc[p] \in {"idle", "done"}

\* C38: after any sequence of install, enable, disable and policy set run
\* one at a time without a crash, each succeeding or returning an error,
\* every entry of a scope's registry on disk has its plugin directory
\* store.plugin_dir(name) on disk, and every plugin directory under the
\* store root has an entry in that registry.
C38_RegistryMatchesDirectories ==
    Quiescent
    => \A s \in Scopes :
          LET registry == Load(fs, s).registry IN
          /\ \A j \in DOMAIN registry.plugins :
                NodeAt(fs, PluginDir(s, registry.plugins[j].name)).kind = "dir"
          /\ \A n \in ChildNames \ {REGISTRY_FILENAME} :
                fs[PluginDir(s, n)].kind = "dir" => FindEntry(registry, n) # 0

\* The view of the popup, and the number of events of a type among the
\* first n sent.
Popup == call["p1"]
SentCount(sent, type, n) ==
    Cardinality({i \in 1 .. n : sent[i].type = type})

\* C39: however many Esc or Ctrl-C events the plugins toggle view
\* receives, it sends ManagePluginsClosed, followed by the ListSkills and
\* ListCustomPrompts operations, exactly once, on the first of them, and
\* is_complete() is true from then on; no other key sends them.
C39_ClosesOnce ==
    [][LET v == call["p1"]
           w == call'["p1"]
           closing == w.keys = v.keys + 1 /\ w.key \in {"Esc", "CtrlC"}
       IN  v.op = "popup"
           => /\ closing
                 => /\ w.complete
                    /\ w.sent = IF v.complete THEN v.sent
                                ELSE v.sent \o <<ManagePluginsClosed, ListSkills,
                                                 ListCustomPrompts>>
              /\ v.complete => w.complete
              /\ ~closing
                 => /\ w.complete = v.complete
                    /\ \A type \in {"ManagePluginsClosed", "CodexOp(ListSkills)",
                                     "CodexOp(ListCustomPrompts)"} :
                          SentCount(w.sent, type, Len(w.sent)) =
                             SentCount(v.sent, type, Len(v.sent))
              /\ SentCount(v.sent, "ManagePluginsClosed", Len(v.sent)) =
                    IF v.complete THEN 1 ELSE 0]_vars

\* The view received Esc and then Ctrl-C and has sent ManagePluginsClosed
\* once.
C39_Witness ==
    /\ Popup.op = "popup"
    /\ Popup.keys >= 2
    /\ Popup.key = "CtrlC"
    /\ Popup.complete
    /\ SentCount(Popup.sent, "ManagePluginsClosed", Len(Popup.sent)) = 1

\* The SetPluginEnabled events sent for the plugin of key k before the
\* popup was closed.
TogglesOf(sent, k) ==
    LET closed == {i \in DOMAIN sent : sent[i].type = "ManagePluginsClosed"}
        before == IF closed = {} THEN Len(sent)
                  ELSE (CHOOSE i \in closed : \A j \in closed : i <= j) - 1
    IN  SelectSeq(SubSeq(sent, 1, before),
                  LAMBDA e : e.type = "SetPluginEnabled"
                             /\ PluginKey(e.name, e.scope) = k)

\* The plugins whose flag when the popup closed is `enabled` and differs
\* from the one they had when it was opened: those toggled an odd number
\* of times, the last time to `enabled`.
ChangedTo(v, enabled) ==
    {k \in {PluginKey(v.items[i].name, v.items[i].scope) : i \in DOMAIN v.items} :
        LET toggles == TogglesOf(v.sent, k) IN
        Len(toggles) % 2 = 1 /\ toggles[Len(toggles)].enabled = enabled}

\* The app has handled the ManagePluginsClosed of the view.
ClosedHandled(v) ==
    /\ v.op = "popup"
    /\ \E i \in 1 .. v.handled : v.sent[i].type = "ManagePluginsClosed"

\* C40: each Space or Enter on the selected item flips its local enabled
\* flag and sends exactly one SetPluginEnabled with that item's name, scope
\* and new flag; when the popup closes, the summary counts a plugin as
\* enabled or disabled only if its state then differs from its state when
\* the popup was opened, so a plugin toggled an even number of times is not
\* counted, and no summary is shown when no plugin's state changed.
C40_ToggleAndSummary ==
    /\ [][LET v == call["p1"]
              w == call'["p1"]
          IN  /\ v.op = "popup"
              /\ w.keys = v.keys + 1
              /\ w.key \in {"Space", "Enter"}
              => \E idx \in DOMAIN v.items :
                    /\ v.selected_idx = Some(idx)
                    /\ w.items = [v.items EXCEPT ![idx].enabled = ~v.items[idx].enabled]
                    /\ w.sent = Append(v.sent,
                                       AppEvent("SetPluginEnabled", v.items[idx].name,
                                                v.items[idx].scope,
                                                ~v.items[idx].enabled))]_vars
    /\ [](ClosedHandled(Popup)
          => Popup.messages =
                IF ChangedTo(Popup, TRUE) = {} /\ ChangedTo(Popup, FALSE) = {}
                THEN <<>>
                ELSE <<[enabled |-> Cardinality(ChangedTo(Popup, TRUE)),
                        disabled |-> Cardinality(ChangedTo(Popup, FALSE))]>>)

\* One plugin was toggled twice and another once before the popup was
\* closed; the summary counts the second only.
C40_Witness ==
    /\ ClosedHandled(Popup)
    /\ \E k \in DOMAIN StateOf(Popup.items) : Len(TogglesOf(Popup.sent, k)) = 2
    /\ Cardinality(ChangedTo(Popup, TRUE) \cup ChangedTo(Popup, FALSE)) = 1
    /\ Len(Popup.messages) = 1

====
